---------------------------- MODULE Spec2Model ----------------------------
(***************************************************************************)
(* A model of the Image-To-DepthWebViewer web application: the RGBDE PNG   *)
(* decoder, the depth denoiser, the mesh density selector, the pinhole     *)
(* mesh reconstructor and the depth remapper of webapp/src/geometry.js,    *)
(* and the load / UI handlers of webapp/src/app.js that drive them.        *)
(*                                                                         *)
(* Numbers.  JavaScript numbers are IEEE doubles and the typed arrays hold *)
(* float32 values; here every real quantity is a fixed-point integer:      *)
(*   - a depth is an integer count of 1/DEPTH_DIVISOR metres (the unit of  *)
(*     the RGBDE encoding itself, geometry.js:60);                         *)
(*   - a ray direction component is an integer count of 1/DirScale;        *)
(*   - a position component is the exact integer product of the two;       *)
(*   - weights, logarithms and exponentials are counts of 1/FX.            *)
(* Floating-point rounding is therefore not modelled: a division rounds    *)
(* down to the unit, once, where the code would round to the nearest       *)
(* double.                                                                 *)
(***************************************************************************)
EXTENDS Integers, Sequences, FiniteSets, TLC

(***************************************************************************)
(* Arithmetic helpers                                                      *)
(***************************************************************************)
Min(a, b) == IF a <= b THEN a ELSE b

Max(a, b) == IF a >= b THEN a ELSE b

Abs(a) == IF a < 0 THEN 0 - a ELSE a

SetMin(S) == CHOOSE x \in S : \A y \in S : x <= y

SetMax(S) == CHOOSE x \in S : \A y \in S : x >= y

\* depth = encoded / 10000 (geometry.js:60): one depth unit of the model is
\* 1/10000 m
DEPTH_DIVISOR == 10000

\* the scale of fixed-point ratios, weights, logarithms and exponentials: the
\* same as that of depths, so that a depth in metres needs no conversion
FX == DEPTH_DIVISOR

\* a / b rounded toward zero
DivTrunc(a, b) == IF a >= 0 THEN a \div b ELSE 0 - ((0 - a) \div b)

\* a / b rounded to the nearest integer, b > 0
DivRound(a, b) ==
  IF a >= 0 THEN (2 * a + b) \div (2 * b) ELSE 0 - ((2 * (0 - a) + b) \div (2 * b))

RECURSIVE ISqrtBetween(_, _, _)
ISqrtBetween(n, lo, hi) ==
  IF lo >= hi THEN lo
  ELSE LET mid == (lo + hi + 1) \div 2
       IN IF mid * mid <= n THEN ISqrtBetween(n, mid, hi)
          ELSE ISqrtBetween(n, lo, mid - 1)

\* floor(sqrt(n)) for 0 <= n < 2^31
ISqrt(n) == ISqrtBetween(n, 0, 46340)

RECURSIVE Pow2(_)
Pow2(k) == IF k <= 0 THEN 1 ELSE 2 * Pow2(k - 1)

SeqSum(s) ==
  LET RECURSIVE go(_)
      go(i) == IF i > Len(s) THEN 0 ELSE s[i] + go(i + 1)
  IN go(1)

\* ln 2 in units of 1/FX
LN2 == (6931 * FX) \div 10000

\* x * 2^k scaled into [FX, 2 FX): << mantissa, exponent >>
RECURSIVE LnNormalize(_, _)
LnNormalize(x, k) ==
  IF x >= 2 * FX THEN LnNormalize(x \div 2, k + 1)
  ELSE IF x < FX THEN LnNormalize(x * 2, k - 1)
  ELSE << x, k >>

\* Math.log(x / FX) * FX for x > 0: ln m = 2 atanh((m - 1) / (m + 1)) on the
\* mantissa, to four terms
FxLn(x) ==
  LET n == LnNormalize(x, 0)
      m == n[1]
      z == ((m - FX) * FX) \div (m + FX)
      z2 == (z * z) \div FX
      t3 == (z * z2) \div FX
      t5 == (t3 * z2) \div FX
      t7 == (t5 * z2) \div FX
  IN n[2] * LN2 + 2 * (z + t3 \div 3 + t5 \div 5 + t7 \div 7)

\* Math.exp(y / FX) * FX: e^r on the remainder of y modulo ln 2, to six terms
FxExp(y) ==
  LET k == y \div LN2
      r == y - k * LN2
      t2 == (r * r) \div (2 * FX)
      t3 == (t2 * r) \div (3 * FX)
      t4 == (t3 * r) \div (4 * FX)
      t5 == (t4 * r) \div (5 * FX)
      t6 == (t5 * r) \div (6 * FX)
      e == FX + r + t2 + t3 + t4 + t5 + t6
  IN IF k < -30 THEN 0
     ELSE IF k < 0 THEN e \div Pow2(0 - k)
     ELSE e * Pow2(k)

\* Math.pow(x / FX, p10 / 10) * FX for x > 0; a power of 1 is exact
FxPow(x, p10) == IF p10 = 10 THEN x ELSE FxExp((p10 * FxLn(x)) \div 10)

\* the value JavaScript gives for an out-of-range typed-array read
UNDEF == -1

\* bytes[i] with JavaScript's 0-based index
At(bytes, i) == IF i >= 0 /\ i < Len(bytes) THEN bytes[i + 1] ELSE UNDEF

\* bytes.slice(from, to): both ends clamped to the array
Slice(bytes, from, to) ==
  LET a == Min(Max(from, 0), Len(bytes))
      b == Min(Max(to, a), Len(bytes))
  IN [i \in 1..(b - a) |-> bytes[a + i]]


(***************************************************************************)
(* The platform: error messages and the inflate capability                 *)
(***************************************************************************)
NONE == "none"

\* the messages of the errors geometry.js and app.js throw
ERR_SIGNATURE == "Invalid PNG signature"

ERR_FORMAT == "Unsupported PNG format (bitDepth, colorType)"

ERR_FILTER == "Unsupported PNG filter type"

ERR_DEFLATE == "Deflate decompression is not supported in this browser."

ERR_EVEN == "RGBDE PNG must have even width (RGB + depth halves)."

ERR_MESH == "Unable to determine mesh density for this image."

\* the errors the platform raises under the program
ERR_RANGE == "RangeError: offset is outside the bounds of the DataView"

ERR_INFLATE == "TypeError: the compressed data was not valid"

ERR_IMAGEDATA == "InvalidStateError: the ImageData source has zero length"

\* view.getUint32(offset): big-endian; a RangeError past the end of the view
HasUint32(bytes, offset) == offset >= 0 /\ offset + 4 <= Len(bytes)

GetUint32(bytes, offset) ==
  ((At(bytes, offset) * 256 + At(bytes, offset + 1)) * 256
     + At(bytes, offset + 2)) * 256 + At(bytes, offset + 3)

U32BE(n) ==
  << (n \div 16777216) % 256, (n \div 65536) % 256, (n \div 256) % 256, n % 256 >>

\* the sum of f[lo..hi], halving the range
RECURSIVE RangeSum(_, _, _)
RangeSum(f, lo, hi) ==
  IF lo > hi THEN 0
  ELSE IF lo = hi THEN f[lo]
  ELSE LET mid == (lo + hi) \div 2
       IN RangeSum(f, lo, mid) + RangeSum(f, mid + 1, hi)

\* Adler-32 of a byte string, as the two 16-bit sums <<a, b>>
Adler32(data) ==
  LET n == Len(data)
      weighted == [i \in 1..n |-> (n - i + 1) * data[i]]
  IN << (1 + RangeSum(data, 1, n)) % 65521,
        (n + RangeSum(weighted, 1, n)) % 65521 >>

\* a zlib stream (RFC 1950) holding `data` in one stored deflate block
\* the four bytes of an Adler-32 checksum, most significant first
AdlerBytes(ad) ==
  << ad[2] \div 256, ad[2] % 256, ad[1] \div 256, ad[1] % 256 >>

ZlibStored(data) ==
  LET n == Len(data)
  IN << 120, 1, 1, n % 256, n \div 256, 255 - (n % 256), 255 - (n \div 256) >>
       \o data
       \o AdlerBytes(Adler32(data))

\* What DecompressionStream('deflate') makes of a byte string: the payload of
\* a well-formed single-stored-block zlib stream, a TypeError of anything else.
InflateStored(data, n, body) ==
  IF /\ Len(data) >= 11
     /\ At(data, 0) = 120 /\ At(data, 1) = 1 /\ At(data, 2) = 1
     /\ At(data, 5) = 255 - At(data, 3) /\ At(data, 6) = 255 - At(data, 4)
     /\ Len(data) = 11 + n
     /\ Slice(data, 7 + n, 11 + n) = AdlerBytes(Adler32(body))
    THEN [err |-> NONE, data |-> body]
  ELSE [err |-> ERR_INFLATE, data |-> << >>]

Inflate(data) ==
  InflateStored(data, At(data, 3) + 256 * At(data, 4),
                Slice(data, 7, 7 + At(data, 3) + 256 * At(data, 4)))

\* inflateData(data): `capable` is 'DecompressionStream' in window
inflateData(capable, data) ==
  IF capable THEN Inflate(data) ELSE [err |-> ERR_DEFLATE, data |-> << >>]

(***************************************************************************)
(* parsePng: signature, chunk walk, defiltering                            *)
(***************************************************************************)
PNG_SIGNATURE == << 137, 80, 78, 71, 13, 10, 26, 10 >>

TYPE_IHDR == << 73, 72, 68, 82 >>

TYPE_IDAT == << 73, 68, 65, 84 >>

TYPE_IEND == << 73, 69, 78, 68 >>

\* the shortest input parsePng reads past the signature check
MIN_PNG_LENGTH == 33

concatenate(chunks) ==
  LET RECURSIVE go(_)
      go(i) == IF i > Len(chunks) THEN << >> ELSE chunks[i] \o go(i + 1)
  IN go(1)

\* readChunks taking an IHDR of any bit depth and colour type
RECURSIVE readChunksAnyFormat(_, _, _)
readChunksAnyFormat(bytes, offset, hdr) ==
  IF ~(offset < Len(bytes)) THEN hdr
  ELSE IF ~HasUint32(bytes, offset) THEN [hdr EXCEPT !.err = ERR_RANGE]
  ELSE
    LET length == GetUint32(bytes, offset)
        type == << At(bytes, offset + 4), At(bytes, offset + 5),
                   At(bytes, offset + 6), At(bytes, offset + 7) >>
        data == offset + 8
    IN IF type = TYPE_IHDR THEN
         IF ~HasUint32(bytes, data) \/ ~HasUint32(bytes, data + 4)
           THEN [hdr EXCEPT !.err = ERR_RANGE]
         ELSE readChunksAnyFormat(bytes, data + length + 4,
                                  [hdr EXCEPT !.width = GetUint32(bytes, data),
                                              !.height = GetUint32(bytes, data + 4),
                                              !.ihdrSeen = @ + 1])
       ELSE IF type = TYPE_IDAT THEN
         readChunksAnyFormat(bytes, data + length + 4,
                             [hdr EXCEPT !.idatChunks =
                                Append(@, Slice(bytes, data, data + length))])
       ELSE IF type = TYPE_IEND THEN hdr
       ELSE readChunksAnyFormat(bytes, data + length + 4, hdr)

\* The while loop over the chunks, from `offset` on.  hdr carries width,
\* height and the IDAT chunks met so far; ihdrSeen counts the IHDR chunks
\* read (the code keeps no such count: it is recorded for the properties).
RECURSIVE readChunks(_, _, _)
readChunks(bytes, offset, hdr) ==
  IF ~(offset < Len(bytes)) THEN hdr
  ELSE IF ~HasUint32(bytes, offset) THEN [hdr EXCEPT !.err = ERR_RANGE]
  ELSE
    LET length == GetUint32(bytes, offset)
        type == << At(bytes, offset + 4), At(bytes, offset + 5),
                   At(bytes, offset + 6), At(bytes, offset + 7) >>
        data == offset + 8
    IN IF type = TYPE_IHDR THEN
         IF ~HasUint32(bytes, data) \/ ~HasUint32(bytes, data + 4)
           THEN [hdr EXCEPT !.err = ERR_RANGE]
         ELSE IF At(bytes, data + 8) # 8 \/ At(bytes, data + 9) # 6
           THEN [hdr EXCEPT !.err = ERR_FORMAT,
                            !.ihdrSeen = @ + 1,
                            !.width = GetUint32(bytes, data),
                            !.height = GetUint32(bytes, data + 4)]
         ELSE readChunks(bytes, data + length + 4,
                         [hdr EXCEPT !.width = GetUint32(bytes, data),
                                     !.height = GetUint32(bytes, data + 4),
                                     !.ihdrSeen = @ + 1])
       ELSE IF type = TYPE_IDAT THEN
         readChunks(bytes, data + length + 4,
                    [hdr EXCEPT !.idatChunks =
                                  Append(@, Slice(bytes, data, data + length))])
       ELSE IF type = TYPE_IEND THEN hdr
       ELSE readChunks(bytes, data + length + 4, hdr)

\* what parsePng keeps of the chunk walk
chunkHeader(hdr) ==
  [err |-> hdr.err, width |-> hdr.width, height |-> hdr.height,
   ihdrSeen |-> hdr.ihdrSeen,
   compressed |-> IF hdr.err = NONE THEN concatenate(hdr.idatChunks)
                  ELSE << >>]

\* the chunk walk before its first chunk
NoChunks ==
  [err |-> NONE, width |-> 0, height |-> 0, ihdrSeen |-> 0, idatChunks |-> << >>]

\* parsePng up to the call of inflateData: the signature check, the length
\* check, the chunk walk and the concatenation of the IDAT chunks
parseChunks(bytes) ==
  chunkHeader(IF (\E i \in 0..7 : At(bytes, i) # PNG_SIGNATURE[i + 1])
                   \/ Len(bytes) < MIN_PNG_LENGTH
                THEN [NoChunks EXCEPT !.err = ERR_SIGNATURE]
              ELSE readChunks(bytes, 8, NoChunks))

\* paeth preferring up-left to left and up when they tie
paethUpLeftFirst(a, b, c) ==
  LET p == a + b - c
      pa == Abs(p - a)
      pb == Abs(p - b)
      pc == Abs(p - c)
  IN IF pc <= pa /\ pc <= pb THEN c
     ELSE IF pa <= pb THEN a
     ELSE b

paeth(a, b, c) ==
  LET p == a + b - c
      pa == Abs(p - a)
      pb == Abs(p - b)
      pc == Abs(p - c)
  IN IF pa <= pb /\ pa <= pc THEN a
     ELSE IF pb <= pc THEN b
     ELSE c

\* (inflated[i] + predictor) & 0xff; an out-of-range read is undefined, the
\* sum NaN, and NaN & 0xff is 0
AddByte(inflatedByte, predictor) ==
  IF inflatedByte = UNDEF THEN 0 ELSE (inflatedByte + predictor) % 256

\* One scanline, left to right: `raw` is the pixel buffer so far (rows above
\* and the bytes of this row already written, so dst + x bytes in all), dst
\* the row's offset in it.
RECURSIVE defilterRow(_, _, _, _, _, _, _, _)
defilterRow(filterType, inflated, src, raw, dst, stride, y, x) ==
  IF x >= stride \/ Len(raw) # dst + x THEN raw
  ELSE
    LET left == IF x >= 4 THEN raw[dst + x - 4 + 1] ELSE 0
        up == IF y > 0 THEN raw[dst + x - stride + 1] ELSE 0
        upLeft == IF y > 0 /\ x >= 4 THEN raw[dst + x - stride - 4 + 1] ELSE 0
        in == At(inflated, src + x)
        byte == CASE filterType = 0 -> IF in = UNDEF THEN 0 ELSE in
                  [] filterType = 1 -> AddByte(in, left)
                  [] filterType = 2 -> AddByte(in, up)
                  [] filterType = 3 -> AddByte(in, ((left + up) \div 2) % 256)
                  [] filterType = 4 -> AddByte(in, paeth(left, up, upLeft))
    IN defilterRow(filterType, inflated, src, Append(raw, byte), dst, stride,
                   y, x + 1)

\* The for loop over rows lo..hi, in order, from the buffer `acc` of the rows
\* above: an error at the first unknown selector, and no row after it.  (The
\* range is halved only to keep the evaluation shallow.)
RECURSIVE defilterRows(_, _, _, _, _)
defilterRows(inflated, width, acc, lo, hi) ==
  IF lo > hi \/ acc.err # NONE THEN acc
  ELSE IF lo = hi THEN
    LET stride == width * 4
        src == lo * (stride + 1)
        filterType == At(inflated, src)
    IN IF filterType \notin 0..4 THEN [err |-> ERR_FILTER, data |-> << >>]
       ELSE [err |-> NONE,
             data |-> defilterRow(filterType, inflated, src + 1, acc.data,
                                  lo * stride, stride, lo, 0)]
  ELSE LET mid == (lo + hi) \div 2
       IN defilterRows(inflated, width,
                       defilterRows(inflated, width, acc, lo, mid),
                       mid + 1, hi)

\* parsePng after inflateData: the pixel buffer {width, height, data}
defilter(width, height, inflated) ==
  LET r == defilterRows(inflated, width, [err |-> NONE, data |-> << >>], 0,
                        height - 1)
  IN [err |-> r.err, width |-> width, height |-> height, data |-> r.data]

(***************************************************************************)
(* decodeRgbdeFile: channel split, depth decode, denoiser, statistics      *)
(***************************************************************************)
\* the constants of geometry.js, lengths in depth units, ratios in 1/FX
MIN_DEPTH_CLAMP == 1500

OFFSET == 3000

DEPTH_SPIKE_THRESHOLD == 4500

DEPTH_STABLE_TOLERANCE == 1200

COLOR_EDGE_THRESHOLD == 1000

\* SMOOTH_BLEND = 0.3, in tenths
SMOOTH_BLEND == 3

BILATERAL_DEPTH_SIGMA == 3500

BILATERAL_COLOR_SIGMA == 800

\* in thousandths
SPATIAL_KERNEL == << 75, 124, 75, 124, 204, 124, 75, 124, 75 >>

\* the least number of stable neighbours for a spike to be replaced
STABLE_COUNT_MIN == 5

\* A JavaScript integer of up to 33 bits is held as two limbs: it is
\* hi * 65536 + lo with lo in 0..65535, and hi is negative when it is.
Limbs(hi, lo) == [hi |-> hi + lo \div 65536, lo |-> lo % 65536]

\* x << k for a byte x and k in {8, 16, 24}: the low 32 bits of x * 2^k, read
\* as a signed 32-bit integer
ShiftLeft(x, k) ==
  IF k >= 16
    THEN Limbs((((x * Pow2(k - 16)) + 32768) % 65536) - 32768, 0)
  ELSE Limbs(0, x * Pow2(k))

\* v >>> 0: the low 32 bits of v, read as an unsigned integer
ToUint32(v) == Limbs(v.hi % 65536, v.lo)

\* v | w for 32-bit integers with no bit in common, signed as | leaves it
BitOr(v, w) == Limbs((((v.hi + w.hi) + 32768) % 65536) - 32768, v.lo + w.lo)

\* v + w
Plus(v, w) == Limbs(v.hi + w.hi, v.lo + w.lo)

\* the bytes of a depth pixel joined by |, which gives a signed integer
encodedBitOr(r, g, b, a) ==
  BitOr(BitOr(BitOr(ShiftLeft(a, 24), ShiftLeft(b, 16)), ShiftLeft(g, 8)),
        Limbs(0, r))

\* `encoded` of decodeRgbdeFile:
\* (((a << 24) >>> 0) + (b << 16) + (g << 8) + r) >>> 0
encoded(r, g, b, a) ==
  ToUint32(Plus(Plus(Plus(ToUint32(ShiftLeft(a, 24)), ShiftLeft(b, 16)),
                     ShiftLeft(g, 8)),
                Limbs(0, r)))

\* `depth` of decodeRgbdeFile, encoded / 10000, as a fraction
depthOf(r, g, b, a) == [num |-> encoded(r, g, b, a), den |-> DEPTH_DIVISOR]

\* the depth of a pixel in depth units (1 / DEPTH_DIVISOR), for the depths
\* below 2^31 units that the grids of the model hold
encodeDepthValue(r, g, b, a) ==
  (depthOf(r, g, b, a).num.hi * 65536 + depthOf(r, g, b, a).num.lo)
    * (DEPTH_DIVISOR \div depthOf(r, g, b, a).den)

clampIndex(value, size) ==
  IF value < 0 THEN 0
  ELSE IF value >= size THEN size - 1
  ELSE value

\* sqrt(dr^2 + dg^2 + db^2) with the differences divided by 255, in 1/FX
colorDistance(r1, g1, b1, r2, g2, b2) ==
  LET s == (r1 - r2) * (r1 - r2) + (g1 - g2) * (g1 - g2)
             + (b1 - b2) * (b1 - b2)
  IN (ISqrt(s * 10000) * (FX \div 100)) \div 255

\* the colour distance between pixels i and j (0-based) of an RGBA buffer
pixelColorDistance(colors, i, j) ==
  colorDistance(colors[4 * i + 1], colors[4 * i + 2], colors[4 * i + 3],
                colors[4 * j + 1], colors[4 * j + 2], colors[4 * j + 3])

\* the index (0-based) of the neighbour (kx, ky) of pixel (x, y), clamped
neighborIndex(x, y, kx, ky, width, height) ==
  clampIndex(y + ky, height) * width + clampIndex(x + kx, width)

\* the 3x3 offsets in the order of the nested ky, kx loops
KERNEL_OFFSETS ==
  << << -1, -1 >>, << 0, -1 >>, << 1, -1 >>,
     << -1, 0 >>, << 0, 0 >>, << 1, 0 >>,
     << -1, 1 >>, << 0, 1 >>, << 1, 1 >> >>

\* sorted[Math.floor(sorted.length / 2)] of a window of 9
medianOf(window) ==
  CHOOSE v \in {window[k] : k \in 1..Len(window)} :
    /\ Cardinality({k \in 1..Len(window) : window[k] < v}) <= Len(window) \div 2
    /\ Cardinality({k \in 1..Len(window) : window[k] <= v}) > Len(window) \div 2

\* spikePixel without the test of the colours
spikePixelAnyColor(depth, colors, width, height, x, y) ==
  LET idx == y * width + x
      center == depth[idx + 1]
      window == [k \in 1..9 |->
                   depth[neighborIndex(x, y, KERNEL_OFFSETS[k][1],
                                       KERNEL_OFFSETS[k][2], width, height)
                           + 1]]
      median == medianOf(window)
      stableCount ==
        Cardinality({k \in (1..9) \ {5} :
                       Abs(window[k] - median) < DEPTH_STABLE_TOLERANCE})
  IN IF center <= 0 THEN center
     ELSE IF Abs(center - median) <= DEPTH_SPIKE_THRESHOLD THEN center
     ELSE IF stableCount >= STABLE_COUNT_MIN THEN median
     ELSE center

\* one pixel of reduceDepthSpikes
spikePixel(depth, colors, width, height, x, y) ==
  LET idx == y * width + x
      center == depth[idx + 1]
      nb == [k \in 1..9 |->
               neighborIndex(x, y, KERNEL_OFFSETS[k][1], KERNEL_OFFSETS[k][2],
                             width, height)]
      window == [k \in 1..9 |-> depth[nb[k] + 1]]
      median == medianOf(window)
      others == (1..9) \ {5}
      stableCount ==
        Cardinality({k \in others :
                       Abs(window[k] - median) < DEPTH_STABLE_TOLERANCE})
      colorDiffAccum ==
        SeqSum([k \in 1..9 |->
                  IF k = 5 THEN 0 ELSE pixelColorDistance(colors, idx, nb[k])])
      neighborCount == 8
  IN IF center <= 0 THEN center
     ELSE IF Abs(center - median) <= DEPTH_SPIKE_THRESHOLD THEN center
     ELSE IF stableCount >= STABLE_COUNT_MIN
               /\ colorDiffAccum < neighborCount * COLOR_EDGE_THRESHOLD
       THEN median
     ELSE center

reduceDepthSpikes(depth, colors, width, height) ==
  [i \in 1..(width * height) |->
     spikePixel(depth, colors, width, height, (i - 1) % width,
                (i - 1) \div width)]

\* Math.exp(-(d * d) / (2 * sigma * sigma)) in 1/FX, d and sigma in one unit
gaussianWeight(d, sigma) ==
  IF Abs(d) >= 10 * sigma THEN 0
  ELSE FxExp(0 - ((d * d) \div ((2 * sigma * sigma) \div FX)))

\* smoothPixel storing the blended difference without the centre
smoothPixelDeltaOnly(depth, colors, width, height, x, y) ==
  LET idx == y * width + x
      center == depth[idx + 1]
      nb == [k \in 1..9 |->
               neighborIndex(x, y, KERNEL_OFFSETS[k][1], KERNEL_OFFSETS[k][2],
                             width, height)]
      weight == [k \in 1..9 |->
                   LET depthWeight ==
                         gaussianWeight(depth[nb[k] + 1] - center,
                                        BILATERAL_DEPTH_SIGMA)
                       colorWeight ==
                         gaussianWeight(pixelColorDistance(colors, idx, nb[k]),
                                        BILATERAL_COLOR_SIGMA)
                   IN (SPATIAL_KERNEL[k] * ((depthWeight * colorWeight) \div FX))
                        \div 1000]
      accum == SeqSum([k \in 1..9 |-> depth[nb[k] + 1] * weight[k]])
      weightSum == SeqSum(weight)
      smoothed == IF weightSum > 0 THEN accum \div weightSum ELSE center
  IN IF center <= 0 THEN center
     ELSE ((smoothed - center) * SMOOTH_BLEND) \div 10

\* smoothPixel without the test of the centre
smoothPixelNoGuard(depth, colors, width, height, x, y) ==
  LET idx == y * width + x
      center == depth[idx + 1]
      nb == [k \in 1..9 |->
               neighborIndex(x, y, KERNEL_OFFSETS[k][1], KERNEL_OFFSETS[k][2],
                             width, height)]
      weight == [k \in 1..9 |->
                   LET depthWeight ==
                         gaussianWeight(depth[nb[k] + 1] - center,
                                        BILATERAL_DEPTH_SIGMA)
                       colorWeight ==
                         gaussianWeight(pixelColorDistance(colors, idx, nb[k]),
                                        BILATERAL_COLOR_SIGMA)
                   IN (SPATIAL_KERNEL[k] * ((depthWeight * colorWeight) \div FX))
                        \div 1000]
      accum == SeqSum([k \in 1..9 |-> depth[nb[k] + 1] * weight[k]])
      weightSum == SeqSum(weight)
      smoothed == IF weightSum > 0 THEN accum \div weightSum ELSE center
  IN center + ((smoothed - center) * SMOOTH_BLEND) \div 10

\* smoothPixel taking the weights to sum to one
smoothPixelUnnormalised(depth, colors, width, height, x, y) ==
  LET idx == y * width + x
      center == depth[idx + 1]
      nb == [k \in 1..9 |->
               neighborIndex(x, y, KERNEL_OFFSETS[k][1], KERNEL_OFFSETS[k][2],
                             width, height)]
      weight == [k \in 1..9 |->
                   LET depthWeight ==
                         gaussianWeight(depth[nb[k] + 1] - center,
                                        BILATERAL_DEPTH_SIGMA)
                       colorWeight ==
                         gaussianWeight(pixelColorDistance(colors, idx, nb[k]),
                                        BILATERAL_COLOR_SIGMA)
                   IN (SPATIAL_KERNEL[k] * ((depthWeight * colorWeight) \div FX))
                        \div 1000]
      accum == SeqSum([k \in 1..9 |-> depth[nb[k] + 1] * weight[k]])
      weightSum == SeqSum(weight)
      smoothed == IF weightSum > 0 THEN accum \div FX ELSE center
  IN IF center <= 0 THEN center
     ELSE center + ((smoothed - center) * SMOOTH_BLEND) \div 10

\* one pixel of applyEdgeAwareSmooth
smoothPixel(depth, colors, width, height, x, y) ==
  LET idx == y * width + x
      center == depth[idx + 1]
      nb == [k \in 1..9 |->
               neighborIndex(x, y, KERNEL_OFFSETS[k][1], KERNEL_OFFSETS[k][2],
                             width, height)]
      weight == [k \in 1..9 |->
                   LET depthWeight ==
                         gaussianWeight(depth[nb[k] + 1] - center,
                                        BILATERAL_DEPTH_SIGMA)
                       colorWeight ==
                         gaussianWeight(pixelColorDistance(colors, idx, nb[k]),
                                        BILATERAL_COLOR_SIGMA)
                   IN (SPATIAL_KERNEL[k] * ((depthWeight * colorWeight) \div FX))
                        \div 1000]
      accum == SeqSum([k \in 1..9 |-> depth[nb[k] + 1] * weight[k]])
      weightSum == SeqSum(weight)
      smoothed == IF weightSum > 0 THEN accum \div weightSum ELSE center
  IN IF center <= 0 THEN center
     ELSE center + ((smoothed - center) * SMOOTH_BLEND) \div 10

applyEdgeAwareSmooth(depth, colors, width, height) ==
  [i \in 1..(width * height) |->
     smoothPixel(depth, colors, width, height, (i - 1) % width,
                 (i - 1) \div width)]

preprocessDepth(depth, colors, width, height) ==
  applyEdgeAwareSmooth(reduceDepthSpikes(depth, colors, width, height),
                       colors, width, height)

\* computeDepthStats counting the zeros in
computeDepthStatsWithZeros(depth) ==
  LET values == {depth[i] : i \in 1..Len(depth)}
      min == IF values = {} THEN MIN_DEPTH_CLAMP
             ELSE CHOOSE d \in values : \A e \in values : d <= e
      max == IF values = {} THEN 0
             ELSE CHOOSE d \in values : \A e \in values : d >= e
  IN [min |-> min, max |-> IF max <= 0 THEN min + DEPTH_DIVISOR ELSE max]

computeDepthStats(depth) ==
  LET positive == {d \in {depth[i] : i \in 1..Len(depth)} : d > 0}
      min == IF positive = {} THEN MIN_DEPTH_CLAMP
             ELSE CHOOSE d \in positive : \A e \in positive : d <= e
      max == IF positive = {} THEN 0
             ELSE CHOOSE d \in positive : \A e \in positive : d >= e
  IN [min |-> min, max |-> IF max <= 0 THEN min + DEPTH_DIVISOR ELSE max]

\* the stages of a decode, in the order they run
STAGES ==
  << "read", "chunks", "inflate", "defilter", "split", "denoise", "stats",
     "image" >>

NoAsset == [width |-> 0, height |-> 0, leftPixels |-> << >>, depth |-> << >>,
            depthStats |-> [min |-> 0, max |-> 0]]

\* the colour half of the pixel buffer, its alpha forced to 255
leftPixelsOf(png) ==
  LET width == png.width \div 2
  IN [i \in 1..(width * png.height * 4) |->
        LET pixel == (i - 1) \div 4
            channel == (i - 1) % 4
            srcIndex == ((pixel \div width) * png.width + (pixel % width)) * 4
        IN IF channel = 3 THEN 255 ELSE png.data[srcIndex + channel + 1]]

\* the depth half of the pixel buffer, each pixel decoded to a depth
depthValuesOf(png) ==
  LET width == png.width \div 2
  IN [i \in 1..(width * png.height) |->
        LET depthIndex ==
              (((i - 1) \div width) * png.width + width + ((i - 1) % width)) * 4
        IN encodeDepthValue(png.data[depthIndex + 1], png.data[depthIndex + 2],
                            png.data[depthIndex + 3], png.data[depthIndex + 4])]

\* the object decodeRgbdeFile returns
assetOf(width, height, leftPixels, smoothedDepth) ==
  [width |-> width, height |-> height, leftPixels |-> leftPixels,
   depth |-> smoothedDepth, depthStats |-> computeDepthStats(smoothedDepth),
   textureImage |-> [width |-> width, height |-> height, data |-> leftPixels]]

\* preprocessDepth and what follows it in decodeRgbdeFile
denoisedAsset(width, height, leftPixels, depthValues) ==
  assetOf(width, height, leftPixels,
          preprocessDepth(depthValues, leftPixels, width, height))

\* decodePixels without the check of the width
decodePixelsAnyWidth(png) ==
  IF (png.width \div 2) * png.height = 0
    THEN [err |-> ERR_IMAGEDATA, stages |-> << "split", "denoise", "stats" >>,
          asset |-> NoAsset]
  ELSE [err |-> NONE,
        stages |-> << "split", "denoise", "stats", "image" >>,
        asset |-> denoisedAsset(png.width \div 2, png.height, leftPixelsOf(png),
                                depthValuesOf(png))]

\* decodeRgbdeFile after parsePng has returned {width, height, data}: the
\* width check, the split into colour and depth halves, preprocessDepth,
\* computeDepthStats and the ImageData of the colour half (which the
\* platform refuses for an empty buffer).  `stages` lists what ran.
decodePixels(png) ==
  IF png.width % 2 # 0
    THEN [err |-> ERR_EVEN, stages |-> << >>, asset |-> NoAsset]
  ELSE IF (png.width \div 2) * png.height = 0
    THEN [err |-> ERR_IMAGEDATA, stages |-> << "split", "denoise", "stats" >>,
          asset |-> NoAsset]
  ELSE [err |-> NONE,
        stages |-> << "split", "denoise", "stats", "image" >>,
        asset |-> denoisedAsset(png.width \div 2, png.height, leftPixelsOf(png),
                                depthValuesOf(png))]

\* parsePng throws `err` after the stages `stages`
parsePngFailure(hdr, err, stages, suspended) ==
  [err |-> err, stages |-> stages, suspended |-> suspended,
   ihdrSeen |-> hdr.ihdrSeen, width |-> hdr.width, height |-> hdr.height,
   data |-> << >>]

\* parsePng once the rows are defiltered: `return { width, height, data }`
parsePngDefiltered(hdr, png, suspended) ==
  IF png.err # NONE
    THEN parsePngFailure(hdr, png.err,
                         << "read", "chunks", "inflate", "defilter" >>,
                         suspended)
  ELSE [err |-> NONE, stages |-> << "read", "chunks", "inflate", "defilter" >>,
        suspended |-> suspended, ihdrSeen |-> hdr.ihdrSeen,
        width |-> png.width, height |-> png.height, data |-> png.data]

\* parsePng once inflateData has settled with `inflated`
parsePngInflated(hdr, inflated, suspended) ==
  IF inflated.err # NONE
    THEN parsePngFailure(hdr, inflated.err, << "read", "chunks", "inflate" >>,
                         suspended)
  ELSE parsePngDefiltered(hdr, defilter(hdr.width, hdr.height, inflated.data),
                          suspended)

\* parsePng once the chunk walk has ended with `hdr`.  It waits for the
\* inflated stream exactly when the walk succeeded and the platform has a
\* DecompressionStream.
parsePngChunks(hdr, capable) ==
  IF hdr.err # NONE
    THEN parsePngFailure(hdr, hdr.err, << "read", "chunks" >>, FALSE)
  ELSE parsePngInflated(hdr, inflateData(capable, hdr.compressed), capable)

\* parsePng(blob): the pixel buffer, or the error thrown, with the stages
\* that ran, whether the call waited for the inflate and how many IHDR
\* chunks it read
parsePng(bytes, capable) == parsePngChunks(parseChunks(bytes), capable)

\* decodeRgbdeFile once parsePng has settled with `png`
decodeParsed(png) ==
  IF png.err # NONE
    THEN [err |-> png.err, stages |-> png.stages, asset |-> NoAsset,
          suspended |-> png.suspended]
  ELSE [decodePixels(png) EXCEPT !.stages = png.stages \o @]
         @@ [suspended |-> png.suspended]

\* decodeRgbdeFile(file): the asset, or the error thrown, with the stages
\* that ran
decodeRgbdeFile(bytes, capable) == decodeParsed(parsePng(bytes, capable))

(***************************************************************************)
(* Input files: RGBDE PNG containers built byte by byte                    *)
(***************************************************************************)
\* the rows of the tall image, whose aspect ratio no tessellation matches
TallRows == 40

\* An image is a colour half and an encoded depth half of equal size.
Images ==
  [A |-> [width |-> 2, height |-> 2,
          colors |-> << << 100, 100, 100 >>, << 100, 100, 100 >>,
                        << 100, 100, 100 >>, << 100, 100, 100 >> >>,
          depths |-> << 10000, 12000, 20000, 0 >>],
   B |-> [width |-> 2, height |-> 2,
          colors |-> << << 200, 10, 10 >>, << 200, 12, 10 >>,
                        << 10, 200, 10 >>, << 10, 10, 200 >> >>,
          depths |-> << 800, 30000, 31000, 90000 >>],
   Tall |-> [width |-> 1, height |-> TallRows,
             colors |-> [i \in 1..TallRows |-> << 50, 60, 70 >>],
             depths |-> [i \in 1..TallRows |-> 10000 + 100 * (i % 3)]]]

Chunk(type, data) == U32BE(Len(data)) \o type \o data \o << 0, 0, 0, 0 >>

\* one unfiltered scanline of the container holding image `img`, with
\* `extraCol` more (empty) pixel columns appended to the depth half
PixelRow(img, y, extraCol) ==
  LET w == img.width
  IN [i \in 1..((2 * w + extraCol) * 4) |->
        LET x == (i - 1) \div 4
            c == (i - 1) % 4
        IN IF x < w
             THEN (IF c = 3 THEN 255 ELSE img.colors[y * w + x + 1][c + 1])
           ELSE IF x < 2 * w
             THEN (img.depths[y * w + (x - w) + 1] \div Pow2(8 * c)) % 256
           ELSE 0]

\* the filtered stream: every row carries selector `filter` in front of its
\* bytes, which a decoder reads as the filtered bytes of that selector
FilteredStream(img, extraCol, filter) ==
  LET RECURSIVE go(_)
      go(y) == IF y >= img.height THEN << >>
               ELSE << filter >> \o PixelRow(img, y, extraCol) \o go(y + 1)
  IN go(0)

\* the chunks of a container in the order of `layout`:
\*   "std"         IHDR IDAT IEND
\*   "split"       IHDR IDAT IDAT IEND (one stream in two chunks)
\*   "noihdr"      IDAT IEND
\*   "lateihdr"    IDAT IEND IHDR
\*   "truncated"   IHDR IDAT and two stray bytes
ChunkLayout(layout, ihdr, zdata, iend) ==
  CASE layout = "std" -> ihdr \o Chunk(TYPE_IDAT, zdata) \o iend
    [] layout = "split" ->
         ihdr \o Chunk(TYPE_IDAT, Slice(zdata, 0, Len(zdata) \div 2))
              \o Chunk(TYPE_IDAT, Slice(zdata, Len(zdata) \div 2, Len(zdata)))
              \o iend
    [] layout = "noihdr" -> Chunk(TYPE_IDAT, zdata) \o iend
    [] layout = "lateihdr" -> Chunk(TYPE_IDAT, zdata) \o iend \o ihdr
    [] layout = "truncated" -> ihdr \o Chunk(TYPE_IDAT, zdata) \o << 0, 0 >>

\* the IHDR chunk of the container of image `img`
Ihdr(fd, img) ==
  Chunk(TYPE_IHDR,
        U32BE(2 * img.width + fd.extraCol) \o U32BE(img.height)
          \o << fd.bitDepth, fd.colorType, 0, 0, 0 >>)

\* the compressed stream of the container, with a bad header when ~fd.zlib
Zdata(fd, img) ==
  (IF fd.zlib THEN << >> ELSE << 120, 1, 0 >>)
    \o ZlibStored(FilteredStream(img, fd.extraCol, fd.filter))

\* The container a file descriptor stands for.
FileBytes(fd) ==
  (IF fd.sig THEN PNG_SIGNATURE ELSE << 137, 80, 78, 71, 13, 10, 26, 11 >>)
    \o ChunkLayout(fd.layout, Ihdr(fd, Images[fd.img]),
                   Zdata(fd, Images[fd.img]), Chunk(TYPE_IEND, << >>))

LAYOUTS == { "std", "split", "noihdr", "lateihdr", "truncated" }

\* a well-formed RGBDE file of image `img`
GoodFile(img) ==
  [sig |-> TRUE, layout |-> "std", bitDepth |-> 8, colorType |-> 6,
   extraCol |-> 0, img |-> img, filter |-> 0, zlib |-> TRUE]

(***************************************************************************)
(* findBestMeshSize, generatePerspectiveMesh, updateVertexPositions        *)
(***************************************************************************)
\* the array f with every element computed, once
Filled(f) == CHOOSE g \in { f } : g = g

\* approxXOf with the aspect ratio taken as height / width
approxXOfInverted(t, width, height) == (ISqrt((4 * t * height) \div width) + 1) \div 2

\* Math.round(Math.sqrt(t * width / height)): the greatest n with
\* (2n - 1)^2 <= 4 t width / height
approxXOf(t, width, height) == (ISqrt((4 * t * width) \div height) + 1) \div 2

\* Math.round(t / approxX)
approxYOf(t, approxX) == (2 * t + approxX) \div (2 * approxX)

\* |x / y - width / height| * (y * height), the ratio error of one candidate
\* on a common denominator: a / y < a2 / y2  iff  a * y2 < a2 * y
ratioErrorNum(x, y, width, height) == Abs(x * height - width * y)

\* one candidate vertex count t of findBestMeshSize: its columns, its rows
\* and its ratio error
meshCandidate(t, width, height) ==
  LET approxX == approxXOf(t, width, height)
      approxY == IF approxX > 0 THEN approxYOf(t, approxX) ELSE 0
  IN [t |-> t, x |-> approxX, y |-> approxY,
      err |-> ratioErrorNum(approxX, approxY, width, height)]

\* findBestMeshSize keeping the last of the candidates of equal ratio error
findBestMeshSizeLastOnTies(width, height, target, meshDiff) ==
  LET minMesh == Max(1, target - meshDiff)
      maxMesh == target + meshDiff
      accepted == {c \in {meshCandidate(t, width, height) : t \in minMesh..maxMesh} :
                     /\ c.x > 0
                     /\ c.x * c.y >= minMesh
                     /\ c.x * c.y <= maxMesh}
      less(c, d) == c.err * d.y < d.err * c.y
      best == CHOOSE c \in accepted :
                \A d \in accepted : IF d.t > c.t THEN less(c, d) ELSE ~less(d, c)
  IN IF accepted = {} THEN [meshX |-> 0, meshY |-> 0]
     ELSE [meshX |-> best.x, meshY |-> best.y]

findBestMeshSize(width, height, target, meshDiff) ==
  LET minMesh == Max(1, target - meshDiff)
      maxMesh == target + meshDiff
      accepted == {c \in {meshCandidate(t, width, height) : t \in minMesh..maxMesh} :
                     /\ c.x > 0
                     /\ c.x * c.y >= minMesh
                     /\ c.x * c.y <= maxMesh}
      \* c's ratio error is below d's
      less(c, d) == c.err * d.y < d.err * c.y
      best == CHOOSE c \in accepted :
                \A d \in accepted : IF d.t < c.t THEN less(c, d) ELSE ~less(d, c)
  IN IF accepted = {} THEN [meshX |-> 0, meshY |-> 0]
     ELSE [meshX |-> best.x, meshY |-> best.y]

\* the scale of a ray direction component
DirScale == 10 * 10

\* the scale of a screen coordinate, in which 1 is the focal length
TanScale == 10 * 100

GEOM_FOV_MIN == 15

GEOM_FOV_MAX == 120

\* Math.tan of half the vertical field of view, in 1/TanScale, for the
\* fields of view the model uses
TanHalfFov(degrees) ==
  CASE degrees = 15 -> 132
    [] degrees = 60 -> 577
    [] degrees = 90 -> 1000
    [] degrees = 120 -> 1732

\* sampleDepth(depth, width, height, x, y, fallback) at the rational pixel
\* coordinate (xn / xd, yn / yd)
sampleDepth(depth, width, height, xn, xd, yn, yd, fallback) ==
  LET ix == Max(0, Min(width - 1, xn \div xd))
      iy == Max(0, Min(height - 1, yn \div yd))
      fx == Max(0, Min(width - 1, (xn + xd - 1) \div xd))
      fy == Max(0, Min(height - 1, (yn + yd - 1) \div yd))
      txn == xn - ix * xd
      tyn == yn - iy * yd
      d00 == depth[iy * width + ix + 1]
      d10 == depth[iy * width + fx + 1]
      d01 == depth[fy * width + ix + 1]
      d11 == depth[fy * width + fx + 1]
      \* top, bottom on the denominator xd; value on xd * yd
      top == d00 * xd + (d10 - d00) * txn
      bottom == d01 * xd + (d11 - d01) * txn
      value == top * yd + (bottom - top) * tyn
  IN IF value > 0 THEN Max(1, value \div (xd * yd))
     ELSE Max(d00, fallback)

\* normalize3(x, y, z), the components in 1/DirScale
normalize3(x, y, z) ==
  LET len == ISqrt(x * x + y * y + z * z)
  IN IF len = 0 THEN << 0, 0, DirScale >>
     ELSE << DivRound(x * DirScale, len), DivRound(y * DirScale, len),
             DivRound(z * DirScale, len) >>

\* the ray through grid point (lon, lat): tanHalfY is tan(fovY / 2), and
\* tan(fovX / 2) = tanHalfY * aspect
rayDirection(width, height, meshX, meshY, tanHalfY, lon, lat) ==
  normalize3(DivTrunc((2 * lon - meshX) * tanHalfY * width, meshX * height),
             DivTrunc((meshY - 2 * lat) * tanHalfY, meshY),
             TanScale)

\* one vertex: its ray (z toward the scene is negative), its base depth and
\* its texture coordinate
vertexOf(dir, depthValue, u, v) ==
  [dir |-> << dir[1], dir[2], 0 - dir[3] >>, depthValue |-> depthValue,
   u |-> u, v |-> v]

\* the vertex at grid point (lon, lat) of generatePerspectiveMesh
gridVertex(depth, width, height, meshX, meshY, depthMin, fovDegrees, lon, lat) ==
  vertexOf(rayDirection(width, height, meshX, meshY,
                        TanHalfFov(Min(Max(fovDegrees, GEOM_FOV_MIN),
                                       GEOM_FOV_MAX)),
                        lon, lat),
           sampleDepth(depth, width, height, lon * Max(1, width - 1), meshX,
                       lat * Max(1, height - 1), meshY, depthMin),
           (lon * FX) \div meshX, (lat * FX) \div meshY)

\* the vertex `index` (0-based, row-major) of generatePerspectiveMesh
meshVertex(depth, width, height, meshX, meshY, depthMin, fovDegrees, index) ==
  gridVertex(depth, width, height, meshX, meshY, depthMin, fovDegrees,
             index % (meshX + 1), index \div (meshX + 1))

\* the index loops run over the columns of vertices instead of the cells
meshIndicesPerVertex(meshX, meshY) ==
  [k \in 1..((meshX + 1) * meshY * 6) |->
     LET cell == (k - 1) \div 6
         current == (cell \div (meshX + 1)) * (meshX + 1) + (cell % (meshX + 1))
         next == current + meshX + 1
     IN << current, next, current + 1,
           current + 1, next, next + 1 >>[((k - 1) % 6) + 1]]

\* the two triangles of each cell of the grid
meshIndices(meshX, meshY) ==
  [k \in 1..(meshX * meshY * 6) |->
     LET cell == (k - 1) \div 6
         current == (cell \div meshX) * (meshX + 1) + (cell % meshX)
         next == current + meshX + 1
     IN << current, next, current + 1,
           current + 1, next, next + 1 >>[((k - 1) % 6) + 1]]

\* the object generatePerspectiveMesh returns for the vertices `vertex`
meshOf(vertex, vertCount, meshX, meshY, depthMin, depthMax) ==
  [positions |-> [k \in 1..(vertCount * 3) |->
                    vertex[(k - 1) \div 3 + 1].dir[((k - 1) % 3) + 1]
                      * vertex[(k - 1) \div 3 + 1].depthValue],
   rayDirections |-> [k \in 1..(vertCount * 3) |->
                        vertex[(k - 1) \div 3 + 1].dir[((k - 1) % 3) + 1]],
   baseDepths |-> [i \in 1..vertCount |-> vertex[i].depthValue],
   uvs |-> [k \in 1..(vertCount * 2) |->
              IF k % 2 = 1 THEN vertex[(k + 1) \div 2].u
              ELSE vertex[k \div 2].v],
   indices |-> meshIndices(meshX, meshY),
   vertexCount |-> vertCount,
   indexCount |-> meshX * meshY * 6,
   baseDepthMin |-> Max(depthMin, MIN_DEPTH_CLAMP),
   baseDepthMax |-> depthMax,
   meshX |-> meshX,
   meshY |-> meshY,
   baseMinZ |-> SetMin({vertex[i].dir[3] * vertex[i].depthValue :
                          i \in 1..vertCount}),
   baseMaxZ |-> SetMax({vertex[i].dir[3] * vertex[i].depthValue :
                          i \in 1..vertCount})]

\* vertCount taken as the number of cells
generatePerspectiveMeshPerCell(depth, width, height, meshX, meshY, depthMin, depthMax, fovDegrees) ==
  meshOf(Filled([i \in 1..(meshX * meshY) |->
                   meshVertex(depth, width, height, meshX, meshY, depthMin,
                              fovDegrees, i - 1)]),
         meshX * meshY, meshX, meshY, depthMin, depthMax)

generatePerspectiveMesh(depth, width, height, meshX, meshY, depthMin, depthMax, fovDegrees) ==
  meshOf(Filled([i \in 1..((meshX + 1) * (meshY + 1)) |->
                   meshVertex(depth, width, height, meshX, meshY, depthMin,
                              fovDegrees, i - 1)]),
         (meshX + 1) * (meshY + 1), meshX, meshY, depthMin, depthMax)

\* Number.POSITIVE_INFINITY: above every depth the model can hold
INFINITY == 2147483647

\* the 0.001 m that keeps a remapped depth off the near limit
NEAR_EPSILON == 10

\* `scaled` of updateVertexPositions for a vertex of base depth `base`:
\* the depth shaped by the mode and magnified about minDepth, before it is
\* clamped.  options.magnification is in tenths, options.logPower in tenths,
\* options.farClip in depth units or INFINITY.
scaledDepth(base, baseDepthMin, options) ==
  LET minDepth == Max(baseDepthMin, MIN_DEPTH_CLAMP)
      scaledMin == minDepth
      relative == Max(base - minDepth + OFFSET, NEAR_EPSILON)
      shaped == IF options.mode = "log"
                  THEN minDepth + FxLn(FX + FxPow(relative, options.logPower))
                  ELSE base
  IN scaledMin + (options.magnification * (shaped - scaledMin)) \div 10

\* remapDepth with the near guard left out
remapDepthNoNearGuard(base, baseDepthMin, options) ==
  Min(scaledDepth(base, baseDepthMin, options), options.farClip)

\* remapDepth with the two clamps in the other order
remapDepthFarFirst(base, baseDepthMin, options) ==
  Max(Min(scaledDepth(base, baseDepthMin, options), options.farClip),
      Max(baseDepthMin, MIN_DEPTH_CLAMP) + NEAR_EPSILON)

\* `depth` of updateVertexPositions: the depth along its ray that the remap
\* gives a vertex of base depth `base`
remapDepth(base, baseDepthMin, options) ==
  Min(Max(scaledDepth(base, baseDepthMin, options),
          Max(baseDepthMin, MIN_DEPTH_CLAMP) + NEAR_EPSILON),
      options.farClip)

\* the positions of `mesh` with vertex i at depth[i] along its ray
positionsAt(mesh, depth) ==
  [k \in 1..(Len(mesh.baseDepths) * 3) |->
     mesh.rayDirections[k] * depth[(k - 1) \div 3 + 1]]

\* updateVertexPositions remapping the depths the positions now hold (the
\* z coordinate over the z of the ray) in place of the base depths
updateVertexPositionsInPlace(mesh, options) ==
  [mesh EXCEPT !.positions =
     positionsAt(mesh,
                 Filled([i \in 1..Len(mesh.baseDepths) |->
                           remapDepth((0 - mesh.positions[3 * i])
                                        \div (0 - mesh.rayDirections[3 * i]),
                                      mesh.baseDepthMin, options)]))]

\* updateVertexPositions keeping the remapped depths as the base depths
updateVertexPositionsRebased(mesh, options) ==
  [mesh EXCEPT !.positions =
     positionsAt(mesh,
                 Filled([i \in 1..Len(mesh.baseDepths) |->
                           remapDepth(mesh.baseDepths[i], mesh.baseDepthMin,
                                      options)])),
               !.baseDepths =
                 [i \in 1..Len(mesh.baseDepths) |->
                    remapDepth(mesh.baseDepths[i], mesh.baseDepthMin, options)]]

updateVertexPositions(mesh, options) ==
  [mesh EXCEPT !.positions =
     positionsAt(mesh,
                 Filled([i \in 1..Len(mesh.baseDepths) |->
                           remapDepth(mesh.baseDepths[i], mesh.baseDepthMin,
                                      options)]))]

(***************************************************************************)
(* app.js: units, constants and the helpers of the handlers                *)
(*                                                                         *)
(* A position coordinate is a direction component times a depth, so one    *)
(* metre is PosUnit.  magnification and logPower are in tenths, scales in  *)
(* hundredths, fields of view in degrees.                                  *)
(***************************************************************************)
PosUnit == DirScale * DEPTH_DIVISOR

NULL == [null |-> TRUE]

MAX_Z_OFFSET == 5 * PosUnit

DESIRED_NEAR == 0 - 2 * PosUnit

MAG_MIN == 1

MAG_MAX == 1000

MAG_DEFAULT == 5

FAR_MAX == 1000 * DEPTH_DIVISOR

FAR_MIN == 1 * DEPTH_DIVISOR

FAR_AUTO_EXPANSION == 10

GEOM_FOV_DEFAULT == 60

FOV_DEFAULT == 60

LOG_POWER_DEFAULT == 10

LOG_POWER_MIN == 1

\* a scale of 1.0
SCALE_ONE == 10 * 10

\* scales are in hundredths
MIN_SCALE == 5

MAX_SCALE == 2500

\* the stereo separation is in millimetres
STEREO_MIN == 0

STEREO_MAX == 100

STEREO_DEFAULT == 20

\* maxAngle = Math.PI / 6 of the mousemove handler; angles are in hundredths
\* of a degree
MAX_ANGLE == 3000

\* sensitivity = (Math.PI / 180) * 0.04 of the mousemove handler: the
\* hundredths of a degree one pixel turns the model
ROTATE_SENSITIVITY == 4

clamp(value, min, max) == Min(Max(value, min), max)

\* MAG_MIN * Math.pow(MAG_MAX / MAG_MIN, t), t = clamp(sliderValue, 0, 100) / 100
sliderToMagnification(sliderValue) ==
  LET t100 == clamp(sliderValue, 0, 100)
      ratio == (MAG_MAX \div MAG_MIN) * FX
  IN DivRound(MAG_MIN * FxExp((t100 * FxLn(ratio)) \div 100), FX)

\* the three decades of the far-clip slider: 0..10 m linear, then 10..100 m
\* and 100..1000 m logarithmic
sliderToFarClip(sliderValue) ==
  LET t100 == clamp(sliderValue, 0, 100)
      ln10 == FxLn(10 * FX)
  IN IF 3 * t100 <= 100 THEN (10 * DEPTH_DIVISOR * 3 * t100) \div 100
     ELSE IF 3 * t100 <= 200
       THEN 10 * FxExp(((3 * t100 - 100) * ln10) \div 100)
     ELSE 100 * FxExp(((3 * t100 - 200) * ln10) \div 100)

Bounds(minX, maxX, minY, maxY, minZ, maxZ) ==
  LET sizeX == maxX - minX
      sizeY == maxY - minY
      sizeZ == maxZ - minZ
  IN [minX |-> minX, maxX |-> maxX, minY |-> minY, maxY |-> maxY,
      minZ |-> minZ, maxZ |-> maxZ,
      sizeX |-> sizeX, sizeY |-> sizeY, sizeZ |-> sizeZ,
      centerZ |-> DivTrunc(minZ + maxZ, 2),
      maxSpan |-> Max(sizeX, Max(sizeY, sizeZ)),
      radius |-> Max(sizeX, sizeY) \div 2]

computeBounds(positions) ==
  LET n == Len(positions) \div 3
      xs == {positions[3 * i - 2] : i \in 1..n}
      ys == {positions[3 * i - 1] : i \in 1..n}
      zs == {positions[3 * i] : i \in 1..n}
  IN Bounds(SetMin(xs), SetMax(xs), SetMin(ys), SetMax(ys), SetMin(zs),
            SetMax(zs))

computeBaseBounds(mesh) ==
  LET n == Len(mesh.baseDepths)
      xs == {mesh.rayDirections[3 * i - 2] * mesh.baseDepths[i] : i \in 1..n}
      ys == {mesh.rayDirections[3 * i - 1] * mesh.baseDepths[i] : i \in 1..n}
  IN Bounds(SetMin(xs), SetMax(xs), SetMin(ys), SetMax(ys), mesh.baseMinZ,
            mesh.baseMaxZ)

\* clamp(4.0 / span, 0.5, 12), in hundredths
calculateInitialScale(bounds) ==
  LET span == Max(bounds.sizeX, bounds.sizeY)
      scale == IF span > 0 THEN (4 * PosUnit * SCALE_ONE) \div span
               ELSE SCALE_ONE
  IN clamp(scale, SCALE_ONE \div 2, 12 * SCALE_ONE)

\* Math.max(suggestedFar, FAR_MIN) of handleFiles: ten times the greatest
\* depth rounded up to a whole metre, within [FAR_MIN, FAR_MAX]
suggestedFarClip(depthStatsMax) ==
  LET depthMax == Max(depthStatsMax, FAR_MIN)
      baseFar == ((depthMax + DEPTH_DIVISOR - 1) \div DEPTH_DIVISOR)
                   * DEPTH_DIVISOR
      expandedFar == baseFar * FAR_AUTO_EXPANSION
      suggestedFar == Min(FAR_MAX, Max(FAR_MIN, expandedFar))
  IN Max(suggestedFar, FAR_MIN)

(***************************************************************************)
(* app.js: the procedures the handlers call.  Each takes and returns the   *)
(* world w = [state, renderer, saveButton]: the `state` object, the        *)
(* buffers and texture the renderer holds, and the Save button.            *)
(***************************************************************************)
refreshAutoFit(w, bounds, resetTranslation) ==
  IF w.state.mesh = NULL THEN w
  ELSE
    LET info == IF bounds # NULL THEN bounds
                ELSE IF w.state.baseBounds # NULL THEN w.state.baseBounds
                ELSE computeBounds(w.state.mesh.positions)
        depthRange == Max(info.maxZ - info.minZ, PosUnit \div 1000)
        pivotOffset == Min(PosUnit, (depthRange \div 100) * 15)
        prevAuto == w.state.autoTranslationZ
        newAuto == clamp(DESIRED_NEAR - info.maxZ, 0 - 20 * PosUnit, 20 * PosUnit)
        delta == prevAuto - newAuto
        translationZ ==
          IF resetTranslation THEN 0
          ELSE IF Abs(delta) > 1
            THEN clamp(w.state.controls.translationZ + delta,
                       0 - MAX_Z_OFFSET, MAX_Z_OFFSET)
          ELSE w.state.controls.translationZ
    IN [w EXCEPT !.state.pivotZ = clamp(info.maxZ - pivotOffset, info.minZ,
                                        info.maxZ),
                 !.state.autoTranslationZ = newAuto,
                 !.state.controls.translationZ = translationZ]

\* state.options.farClip || FAR_MAX, clamped to [FAR_MIN, FAR_MAX] and
\* written back
farClipClamped(w) ==
  [w EXCEPT !.state.options.farClip =
              Min(Max(IF @ = 0 THEN FAR_MAX ELSE @, FAR_MIN), FAR_MAX)]

\* state.mesh after updateVertexPositions, uploaded by renderer.updatePositions
positionsUpdated(w, mesh) ==
  [w EXCEPT !.state.mesh = mesh, !.renderer.positions = mesh.positions]

\* the call updateVertexPositions(state.mesh, state.options) is made
remapCalled(w) == [w EXCEPT !.remapCalls = Append(@, w.state.options)]

updateDepthTransform(w, resetTranslation) ==
  IF w.state.mesh = NULL THEN w
  ELSE refreshAutoFit(
         positionsUpdated(
           remapCalled(farClipClamped(w)),
           updateVertexPositions(w.state.mesh, farClipClamped(w).state.options)),
         NULL, resetTranslation)

resetView(w) ==
  [w EXCEPT !.state.controls =
              [rotationX |-> 0, rotationY |-> 0, translationX |-> 0,
               translationY |-> 0, translationZ |-> 0,
               scale |-> w.state.initialScale],
            !.state.options =
              [magnification |-> MAG_DEFAULT, farClip |-> FAR_MAX,
               mode |-> "linear", logPower |-> LOG_POWER_DEFAULT],
            !.state.camera.fov = FOV_DEFAULT]

applyInitialView(w) ==
  IF w.state.mesh = NULL THEN w
  ELSE
    LET bounds == IF w.state.baseBounds # NULL THEN w.state.baseBounds
                  ELSE computeBounds(w.state.mesh.positions)
        scale == calculateInitialScale(bounds)
    IN refreshAutoFit([w EXCEPT !.state.initialScale = scale,
                                !.state.controls.scale = scale],
                      bounds, TRUE)

updateGeometry(w, mesh) ==
  [w EXCEPT !.renderer.positions = mesh.positions,
            !.renderer.uvs = mesh.uvs,
            !.renderer.indices = mesh.indices,
            !.renderer.indexCount = mesh.indexCount]

\* state.baseBounds and state.initialScale of a new mesh
baseBoundsSet(w, baseBounds) ==
  [w EXCEPT !.state.baseBounds = baseBounds,
            !.state.initialScale = calculateInitialScale(baseBounds)]

\* what handleFiles and rebuildMesh do with a new mesh: state.mesh, the
\* renderer's geometry and texture, the base bounds and the initial scale
meshInstalled(w, mesh, textureImage) ==
  baseBoundsSet([updateGeometry(w, mesh) EXCEPT
                   !.state.mesh = mesh,
                   !.renderer.texture = textureImage],
                computeBaseBounds(mesh))

\* the end of rebuildMesh: the view of the new mesh
rebuiltView(w, preserveView, skipReset) ==
  IF preserveView THEN updateDepthTransform(w, FALSE)
  ELSE updateDepthTransform(IF skipReset THEN w ELSE resetView(w), TRUE)

rebuildMesh(w, preserveView, skipReset) ==
  IF w.state.rgbde = NULL THEN w
  ELSE IF w.state.meshConfig.meshX = 0 \/ w.state.meshConfig.meshY = 0 THEN w
  ELSE rebuiltView(
         meshInstalled(
           w,
           generatePerspectiveMesh(w.state.rgbde.depth, w.state.rgbde.width,
                                   w.state.rgbde.height,
                                   w.state.meshConfig.meshX,
                                   w.state.meshConfig.meshY,
                                   w.state.rgbde.depthStats.min,
                                   w.state.rgbde.depthStats.max,
                                   w.state.meshConfig.geomFov),
           w.state.rgbde.textureImage),
         preserveView, skipReset)

setReconstructionFov(w, value, rebuild, preserveView) ==
  IF rebuild /\ w.state.mesh # NULL
    THEN rebuildMesh([w EXCEPT !.state.meshConfig.geomFov =
                                 clamp(value, GEOM_FOV_MIN, GEOM_FOV_MAX)],
                     preserveView, ~preserveView)
  ELSE [w EXCEPT !.state.meshConfig.geomFov =
                   clamp(value, GEOM_FOV_MIN, GEOM_FOV_MAX)]

SAVE_LABEL_GENERATED == "Save RGBDE"

SAVE_LABEL_EXISTING == "Download RGBDE"

GENERATE_LABEL_DEFAULT == "Generate Depth"

GENERATE_LABEL_BUSY == "Generating"

\* setProcessing leaving the button to the availability alone
setProcessingButtonFree(w, isProcessing) ==
  [w EXCEPT !.state.processing = isProcessing,
            !.generateButton =
              [disabled |-> ~w.state.backend.available,
               textContent |-> IF isProcessing THEN GENERATE_LABEL_BUSY
                               ELSE GENERATE_LABEL_DEFAULT]]

setProcessing(w, isProcessing) ==
  [w EXCEPT !.state.processing = isProcessing,
            !.generateButton =
              [disabled |-> ~w.state.backend.available \/ isProcessing,
               textContent |-> IF isProcessing THEN GENERATE_LABEL_BUSY
                               ELSE GENERATE_LABEL_DEFAULT]]

\* generateFromSource after `await handleFiles(...)` has returned: the
\* finally block, for a load that generateFromSource began
generateEnded(w, sourceType) ==
  IF sourceType = "generated" THEN setProcessing(w, FALSE) ELSE w

updateSaveButtonState(w) ==
  IF w.state.asset.blob = NULL
    THEN [w EXCEPT !.saveButton = [disabled |-> TRUE,
                                   textContent |-> SAVE_LABEL_GENERATED]]
  ELSE [w EXCEPT !.saveButton =
          [disabled |-> FALSE,
           textContent |-> IF w.state.asset.source = "generated"
                             THEN SAVE_LABEL_GENERATED
                           ELSE SAVE_LABEL_EXISTING]]

\* setCurrentAsset keeping the blob the page already offers
setCurrentAssetKeepingFirst(w, blob, sourceType) ==
  updateSaveButtonState(
    IF w.state.asset.blob # NULL THEN w
    ELSE [w EXCEPT !.state.asset = [blob |-> blob, filename |-> blob.name,
                                    source |-> sourceType]])

setCurrentAsset(w, blob, sourceType) ==
  updateSaveButtonState(
    [w EXCEPT !.state.asset = [blob |-> blob, filename |-> blob.name,
                               source |-> sourceType]])

(***************************************************************************)
(* The files a user can drop on the page                                   *)
(***************************************************************************)
Files ==
  "A.png" :> GoodFile("A")
  @@ "B.360.png" :> [GoodFile("B") EXCEPT !.layout = "split"]
  @@ "Tall.png" :> GoodFile("Tall")
  @@ "odd.png" :> [GoodFile("A") EXCEPT !.extraCol = 1]
  @@ "badsig.png" :> [GoodFile("A") EXCEPT !.sig = FALSE]
  @@ "filter5.png" :> [GoodFile("A") EXCEPT !.filter = 5]

FileNames == DOMAIN Files

\* /\.360\./i.test(file.name)
Matches360(name) == name \in { "B.360.png" }

\* what decodeRgbdeFile does with each file, with and without a
\* DecompressionStream
Decoded ==
  [capable \in BOOLEAN |->
     [name \in FileNames |-> decodeRgbdeFile(FileBytes(Files[name]), capable)]]

\* a FileList: empty, or one file
FileLists == { << >> } \cup { << [name |-> n] >> : n \in FileNames }

\* The vertex budget of the model.  handleFiles calls findBestMeshSize with
\* its defaults TARGET_MESH = 250000 and MESH_DIFF = 2000, which no image
\* less than a million times taller than wide can miss; the model keeps the
\* function and scales the budget down, so that the image of TallRows rows
\* is beyond it.
MeshTarget == 4

MeshDiff == 2

\* the number of events (drops and inputs) of a run
MaxEvents == 3

(***************************************************************************)
(* The state of the application                                            *)
(***************************************************************************)
VARIABLES
  state,                  \* the `state` object of app.js
  renderer,               \* the buffers and the texture uploaded to WebGL
  saveButton,             \* the Save button
  generateButton,         \* the Generate Depth button
  status,                 \* the message showStatus displays
  console,                \* the last error given to console.error
  loads,                  \* the calls suspended in an await: handleFiles,
                          \* generateFromSource and checkBackend
  hasDecompressionStream, \* whether the browser has DecompressionStream
  events,                 \* the number of events handled so far
  remapCalls,             \* the options of each updateVertexPositions call
                          \* of the last handler that changed the page
  probe                   \* the bench of the pipeline and remap runs

appVars ==
  << state, renderer, saveButton, generateButton, status, console, loads,
     hasDecompressionStream, events, remapCalls >>

vars ==
  << state, renderer, saveButton, generateButton, status, console, loads,
     hasDecompressionStream, events, remapCalls, probe >>

\* what showStatus displays: a message and, for `Loaded ${file.name}`, the file
Status(message, file) == [message |-> message, file |-> file]

MSG_LOADING == "Loading"

MSG_LOADED == "Loaded"

MSG_GENERATING == "Generating Depth for"

MSG_GENERATED == "Generated"

MSG_UNAVAILABLE == "Depth service unavailable. Attempting to reconnect"

MSG_NOT_REACHABLE == "Depth service not reachable. RGBDE generation disabled."

ERR_UNREACHABLE ==
  "Depth service unreachable. Check that the backend is running."

ERR_GENERATION == "Depth generation failed."

MSG_NOT_RGBDE ==
  "This file is not an RGBDE PNG. Use Generate Depth for raw images."

InitialState ==
  [rgbde |-> NULL,
   mesh |-> NULL,
   is360 |-> FALSE,
   options |-> [magnification |-> MAG_DEFAULT, farClip |-> FAR_MAX,
                mode |-> "linear", logPower |-> LOG_POWER_DEFAULT],
   meshConfig |-> [meshX |-> 0, meshY |-> 0, geomFov |-> GEOM_FOV_DEFAULT],
   camera |-> [fov |-> FOV_DEFAULT],
   stereo |-> [separation |-> STEREO_DEFAULT],
   interaction |-> [dragging |-> FALSE, rotating |-> FALSE,
                    lastX |-> 0, lastY |-> 0],
   controls |-> [rotationX |-> 0, rotationY |-> 0, translationX |-> 0,
                 translationY |-> 0, translationZ |-> 0, scale |-> SCALE_ONE],
   initialScale |-> SCALE_ONE,
   autoTranslationZ |-> 0,
   pivotZ |-> 0,
   baseBounds |-> NULL,
   backend |-> [available |-> FALSE, device |-> NULL, checking |-> FALSE,
                note |-> NULL],
   asset |-> [blob |-> NULL, filename |-> "null", source |-> "null"],
   processing |-> FALSE]

\* the page after init(): nothing loaded, the Save button disabled
AppInit ==
  /\ state = InitialState
  /\ renderer = [positions |-> << >>, uvs |-> << >>, indices |-> << >>,
                 indexCount |-> 0, texture |-> NULL]
  /\ saveButton = [disabled |-> TRUE, textContent |-> SAVE_LABEL_GENERATED]
  /\ generateButton = [disabled |-> TRUE,
                       textContent |-> GENERATE_LABEL_DEFAULT]
  /\ status = Status("", "")
  /\ console = NONE
  /\ loads = << >>
  /\ hasDecompressionStream \in BOOLEAN
  /\ events = 0
  /\ remapCalls = << >>

\* the page as a handler finds it, with no call made yet
World ==
  [state |-> state, renderer |-> renderer, saveButton |-> saveButton,
   generateButton |-> generateButton, remapCalls |-> << >>]

\* the handler leaves the world w (computed once, then bound)
Commit(w) ==
  \E v \in { w } :
    /\ state' = v.state
    /\ renderer' = v.renderer
    /\ saveButton' = v.saveButton
    /\ generateButton' = v.generateButton
    /\ remapCalls' = v.remapCalls

\* handleFiles: `state.rgbde = data; state.is360 = ...`
handleFilesAssign(w, file, data) ==
  [w EXCEPT !.state.rgbde = data, !.state.is360 = Matches360(file.name)]

\* handleFiles: the density findBestMeshSize picks for the decoded image
handleFilesMeshSize(data) ==
  findBestMeshSize(data.width, data.height, MeshTarget, MeshDiff)

\* handleFiles: the options of a freshly loaded image
loadOptions(w, depthStatsMax) ==
  [w EXCEPT !.state.options =
              [magnification |-> MAG_DEFAULT,
               farClip |-> suggestedFarClip(depthStatsMax),
               mode |-> "linear", logPower |-> LOG_POWER_DEFAULT]]

\* handleFiles from `state.meshConfig.meshX = meshSize.meshX` to
\* `return true`, for a density meshSize that is not zero
handleFilesBuild(w, meshSize, file, data, sourceType) ==
  setCurrentAsset(
    resetView(applyInitialView(updateDepthTransform(
      loadOptions(
        meshInstalled(
          setReconstructionFov(
            [w EXCEPT !.state.meshConfig.meshX = meshSize.meshX,
                      !.state.meshConfig.meshY = meshSize.meshY],
            clamp(w.state.meshConfig.geomFov, GEOM_FOV_MIN, GEOM_FOV_MAX),
            FALSE, TRUE),
          generatePerspectiveMesh(
            data.depth, data.width, data.height, meshSize.meshX,
            meshSize.meshY, data.depthStats.min, data.depthStats.max,
            clamp(w.state.meshConfig.geomFov, GEOM_FOV_MIN, GEOM_FOV_MAX)),
          data.textureImage),
        data.depthStats.max),
      TRUE))),
    file, sourceType)

\* a catch block that also clears the scene
handleFilesCatchClearing(w) ==
  [w EXCEPT !.state.rgbde = NULL, !.state.mesh = NULL,
            !.saveButton.disabled = TRUE]

\* the catch block of handleFiles: what it leaves in the world
handleFilesCatch(w) ==
  IF w.state.asset.blob = NULL THEN [w EXCEPT !.saveButton.disabled = TRUE]
  ELSE w

\* the catch block of handleFiles: the status it shows for `error`
catchStatus(error) ==
  IF error \in { ERR_EVEN, ERR_MESH } THEN MSG_NOT_RGBDE ELSE error

(***************************************************************************)
(* The handlers.  A drop on the window and a change of the file input both *)
(* call handleFiles(files), which runs to its first await; the rest of the *)
(* call runs when the file's bytes have arrived, and again when the        *)
(* inflated stream has.                                                    *)
(***************************************************************************)
RemoveAt(seq, i) == SubSeq(seq, 1, i - 1) \o SubSeq(seq, i + 1, Len(seq))

\* the values the inputs of a run are drawn from
MagSliders == { 33, 100, 150 }

FarSliders == { 0, 17 }

FovInputs == { 10, 90 }

LogPowerInputs == { 0, 20 }

\* handleFiles(input) up to `await decodeRgbdeFile(file)`.  The suspended
\* call keeps the file and, in `decode`, what decodeRgbdeFile makes of its
\* bytes on this platform: the bytes of a File do not change.
StartLoad(input) ==
  /\ events < MaxEvents
  /\ events' = events + 1
  /\ IF input = << >>
       THEN UNCHANGED << status, loads >>
     ELSE /\ status' = Status(MSG_LOADING, "")
          /\ loads' =
               Append(loads,
                      [file |-> input[1], sourceType |-> "rgbde", pc |-> "read",
                       decode |-> Decoded[hasDecompressionStream][input[1].name]])
  /\ UNCHANGED << state, renderer, saveButton, generateButton, console,
                  hasDecompressionStream, remapCalls, probe >>

\* the bytes have arrived: parsePng awaits inflateData whatever the chunk
\* walk found
LoadReadUnparsed(i) ==
  /\ i \in DOMAIN loads
  /\ loads[i].pc = "read"
  /\ loads' = [loads EXCEPT ![i].pc = "inflate"]
  /\ UNCHANGED << state, renderer, saveButton, generateButton, status,
                  console, hasDecompressionStream, events, remapCalls,
                  probe >>

\* the bytes have arrived and the chunks are well formed: parsePng awaits
\* inflateData
LoadRead(i) ==
  /\ i \in DOMAIN loads
  /\ loads[i].pc = "read"
  /\ loads[i].decode.suspended
  /\ loads' = [loads EXCEPT ![i].pc = "inflate"]
  /\ UNCHANGED << state, renderer, saveButton, generateButton, status,
                  console, hasDecompressionStream, events, remapCalls,
                  probe >>

\* the load i throws `error` with the world at w: the catch block of
\* handleFiles, which returns false
LoadFails(i, error, w) ==
  /\ loads' = RemoveAt(loads, i)
  /\ console' = error
  /\ status' = Status(catchStatus(error), "")
  /\ Commit(generateEnded(handleFilesCatch(w), loads[i].sourceType))
  /\ UNCHANGED << hasDecompressionStream, events, probe >>

\* decodeRgbdeFile throws: before parsePng awaits, or after the inflate
LoadDecodeFails(i) ==
  /\ i \in DOMAIN loads
  /\ loads[i].decode.err # NONE
  /\ loads[i].pc = IF loads[i].decode.suspended THEN "inflate" ELSE "read"
  /\ LoadFails(i, loads[i].decode.err, World)

\* the decode has returned an asset and findBestMeshSize finds no
\* tessellation: handleFiles throws, catches and returns false
LoadTessellationFails(i) ==
  /\ i \in DOMAIN loads
  /\ loads[i].pc = "inflate"
  /\ loads[i].decode.err = NONE
  /\ \E meshSize \in { handleFilesMeshSize(loads[i].decode.asset) } :
       /\ meshSize.meshX = 0 \/ meshSize.meshY = 0
       /\ LoadFails(i, ERR_MESH,
                    handleFilesAssign(World, loads[i].file,
                                      loads[i].decode.asset))

\* the decode has returned an asset and handleFiles returns true
LoadSucceeds(i) ==
  /\ i \in DOMAIN loads
  /\ loads[i].pc = "inflate"
  /\ loads[i].decode.err = NONE
  /\ \E meshSize \in { handleFilesMeshSize(loads[i].decode.asset) } :
       /\ ~(meshSize.meshX = 0 \/ meshSize.meshY = 0)
       /\ Commit(generateEnded(
                   handleFilesBuild(
                     handleFilesAssign(World, loads[i].file,
                                       loads[i].decode.asset),
                     meshSize, loads[i].file, loads[i].decode.asset,
                     loads[i].sourceType),
                   loads[i].sourceType))
  /\ status' = Status(IF loads[i].sourceType = "generated"
                        THEN MSG_GENERATED ELSE MSG_LOADED,
                      loads[i].file.name)
  /\ loads' = RemoveAt(loads, i)
  /\ UNCHANGED << console, hasDecompressionStream, events, probe >>

\* an input handler that leaves the world w
Handled(w) ==
  /\ events < MaxEvents
  /\ events' = events + 1
  /\ Commit(w)
  /\ UNCHANGED << status, console, loads, hasDecompressionStream, probe >>

MagnificationInput(sliderValue) ==
  Handled(updateDepthTransform(
            [World EXCEPT !.state.options.magnification =
                            sliderToMagnification(sliderValue)], FALSE))

GeomFovInput(value) == Handled(setReconstructionFov(World, value, TRUE, TRUE))

FarClipInput(sliderValue) ==
  Handled(updateDepthTransform(
            [World EXCEPT !.state.options.farClip =
                            Max(sliderToFarClip(sliderValue), FAR_MIN)], FALSE))

DepthModeChange(checked) ==
  Handled(updateDepthTransform(
            [World EXCEPT !.state.options.mode =
                            IF checked THEN "log" ELSE "linear"], FALSE))

\* state.options.logPower = value, without the floor of 0.1
logPowerSetUnfloored(w, value) ==
  [w EXCEPT !.state.options.logPower = value]

\* state.options.logPower = Math.max(0.1, value)
logPowerSet(w, value) ==
  [w EXCEPT !.state.options.logPower = Max(LOG_POWER_MIN, value)]

LogPowerInput(value) ==
  Handled(IF state.options.mode = "log"
            THEN updateDepthTransform(logPowerSet(World, value), FALSE)
          ELSE logPowerSet(World, value))

\* the dblclick handler: `state.controls.scale = state.initialScale;
\* state.controls.translationZ = 0`
scaleRestored(w) ==
  [w EXCEPT !.state.controls.scale = w.state.initialScale,
            !.state.controls.translationZ = 0]

\* the dblclick handler without its closing updateDepthTransform
DblClickNoRemap ==
  Handled(scaleRestored(
            resetView(setReconstructionFov(World, GEOM_FOV_DEFAULT, TRUE,
                                           FALSE))))

DblClick ==
  Handled(updateDepthTransform(
            scaleRestored(
              resetView(setReconstructionFov(World, GEOM_FOV_DEFAULT, TRUE,
                                             FALSE))),
            TRUE))

Init == AppInit /\ probe = NULL

Next ==
  \/ \E input \in FileLists : StartLoad(input)
  \/ \E i \in DOMAIN loads : LoadRead(i)
  \/ \E i \in DOMAIN loads : LoadDecodeFails(i)
  \/ \E i \in DOMAIN loads : LoadTessellationFails(i)
  \/ \E i \in DOMAIN loads : LoadSucceeds(i)
  \/ \E v \in MagSliders : MagnificationInput(v)
  \/ \E v \in FovInputs : GeomFovInput(v)
  \/ \E v \in FarSliders : FarClipInput(v)
  \/ \E checked \in BOOLEAN : DepthModeChange(checked)
  \/ \E v \in LogPowerInputs : LogPowerInput(v)
  \/ DblClick

Spec == Init /\ [][Next]_vars

\* the fields of state a failed load is said to leave alone
LoadedFields == { "rgbde", "mesh", "meshConfig", "asset" }

\* C1: a load that fails because findBestMeshSize gives a zero tessellation,
\* while an asset is loaded, leaves state.rgbde, state.mesh, state.meshConfig
\* and state.asset as they were.
C1_TessellationFailureKeepsAsset ==
  [][\A i \in DOMAIN loads :
       (LoadTessellationFails(i) /\ state.asset.blob # NULL) =>
         \A f \in LoadedFields : state'[f] = state[f]]_vars

\* C2: a load whose decodeRgbdeFile fails has no asset, leaves state.rgbde,
\* state.mesh, state.meshConfig, state.asset and state.options as they were,
\* and ends: the pending loads are the others, in order, and none is added.
C2_DecodeAllOrNothing ==
  [][\A i \in DOMAIN loads :
       LoadDecodeFails(i) =>
         /\ loads[i].decode.asset = NoAsset
         /\ \A f \in LoadedFields \cup { "options" } : state'[f] = state[f]
         /\ loads' = RemoveAt(loads, i)]_vars

\* a decode has failed on an unknown filter selector, after its inflate,
\* while an image is loaded and shown
C2_Witness ==
  /\ console = ERR_FILTER
  /\ state.asset.blob # NULL
  /\ state.rgbde # NULL
  /\ state.mesh # NULL
  /\ renderer.positions = state.mesh.positions

\* C21: every call of updateVertexPositions a handler makes has
\* magnification in [0.1, 100], farClip in [1, 1000], mode linear or log and
\* logPower at least 0.1.
C21_RemapOptionsInRange ==
  \A k \in DOMAIN remapCalls :
    /\ remapCalls[k].magnification \in MAG_MIN..MAG_MAX
    /\ remapCalls[k].farClip \in FAR_MIN..FAR_MAX
    /\ remapCalls[k].mode \in { "linear", "log" }
    /\ remapCalls[k].logPower >= LOG_POWER_MIN

\* a remap in log mode whose power the slider gave as 0
C21_Witness ==
  \E k \in DOMAIN remapCalls :
    remapCalls[k].mode = "log" /\ remapCalls[k].logPower = LOG_POWER_MIN

\* C23 as stated: a decode that has yielded control is waiting for the
\* inflate, its only suspension point.
C23_OnlyInflateSuspends ==
  \A i \in DOMAIN loads : loads[i].pc = "inflate"

\* C23: a decode yields control at two points, while the bytes of the file
\* are read and while the stream is inflated; it waits for the inflate only
\* after the chunks have been walked without an error, and nothing runs
\* between the stages after the inflate.
C23_ReadAndInflateSuspend ==
  \A i \in DOMAIN loads :
    /\ loads[i].pc \in { "read", "inflate" }
    /\ loads[i].pc = "inflate" =>
         /\ loads[i].decode.suspended
         /\ SubSeq(loads[i].decode.stages, 1, 3)
              = << "read", "chunks", "inflate" >>

\* one load waits for its bytes while another waits for its inflate and an
\* image loaded in between is shown
C23_Witness ==
  /\ state.mesh # NULL
  /\ \E i \in DOMAIN loads : loads[i].pc = "read"
  /\ \E i \in DOMAIN loads : loads[i].pc = "inflate"

\* the mesh generatePerspectiveMesh gives for the held asset, the stored
\* tessellation and the stored field of view
MeshOfHeldAsset ==
  generatePerspectiveMesh(state.rgbde.depth, state.rgbde.width,
                          state.rgbde.height, state.meshConfig.meshX,
                          state.meshConfig.meshY, state.rgbde.depthStats.min,
                          state.rgbde.depthStats.max, state.meshConfig.geomFov)

\* C24: a held mesh is the mesh generated from the held asset with the
\* stored tessellation and reconstruction field of view, remapped or not.
C24_MeshFromHeldAsset ==
  state.mesh # NULL =>
    /\ state.rgbde # NULL
    /\ state.mesh = [MeshOfHeldAsset EXCEPT !.positions = state.mesh.positions]

\* C26: while a mesh is held, its positions are what updateVertexPositions
\* computes from it and the options of the moment.
C26_PositionsFollowOptions ==
  state.mesh # NULL =>
    state.mesh.positions
      = updateVertexPositions(state.mesh, state.options).positions

\* a load has remapped with the suggested far distance and then reset the
\* far clip to its maximum
C26_Witness ==
  /\ state.mesh # NULL
  /\ status.message = MSG_LOADED
  /\ Len(remapCalls) > 0
  /\ remapCalls[Len(remapCalls)].farClip < FAR_MAX
  /\ state.options.farClip = FAR_MAX

\* C27: while every load so far has succeeded, the held asset, the held
\* mesh, the uploaded texture and the blob the Save button offers come from
\* one file.
C27_OneFileHeld ==
  (console = NONE /\ state.mesh # NULL) =>
    \E name \in FileNames :
      /\ state.asset.blob = [name |-> name]
      /\ state.asset.filename = name
      /\ state.rgbde = Decoded[hasDecompressionStream][name].asset
      /\ state.mesh
           = [MeshOfHeldAsset EXCEPT !.positions = state.mesh.positions]
      /\ renderer.texture = state.rgbde.textureImage
      /\ renderer.indices = state.mesh.indices

\* a file is shown while the load of another good file, begun before or
\* after it, still waits for its inflate
C27_Witness ==
  /\ console = NONE
  /\ state.mesh # NULL
  /\ \E i \in DOMAIN loads :
       /\ loads[i].pc = "inflate"
       /\ loads[i].decode.err = NONE
       /\ loads[i].file.name # state.asset.filename
       /\ handleFilesMeshSize(loads[i].decode.asset).meshX # 0

\* the band [max(1, target - tolerance), target + tolerance] of handleFiles
MeshBand == Max(1, MeshTarget - MeshDiff)..(MeshTarget + MeshDiff)

\* C19 as stated: the vertex count (columns + 1) * (rows + 1) of every
\* tessellation chosen is within [target - tolerance, target + tolerance].
C19_VertexCountInBand ==
  state.mesh # NULL =>
    state.mesh.vertexCount \in (MeshTarget - MeshDiff)..(MeshTarget + MeshDiff)

\* C19: the cell count columns * rows of every tessellation chosen is within
\* the band, and the vertex count is that band's member plus
\* columns + rows + 1.
C19_CellCountInBand ==
  state.mesh # NULL =>
    /\ state.mesh.meshX * state.mesh.meshY \in MeshBand
    /\ state.mesh.vertexCount - (state.mesh.meshX + state.mesh.meshY + 1)
         \in MeshBand

\* a tessellation whose cells are in the band and whose vertices are above it
C19_Witness ==
  /\ state.mesh # NULL
  /\ state.mesh.meshX * state.mesh.meshY \in MeshBand
  /\ state.mesh.vertexCount > MeshTarget + MeshDiff

\* C20: the mesh in use has (columns + 1) * (rows + 1) vertices, three
\* positions and three ray direction components, one base depth and two
\* texture coordinates per vertex, and six indices per cell, also after
\* remaps and rebuilds for another field of view.
C20_MeshShape ==
  state.mesh # NULL =>
    /\ state.mesh.vertexCount
         = (state.mesh.meshX + 1) * (state.mesh.meshY + 1)
    /\ Len(state.mesh.positions) = 3 * state.mesh.vertexCount
    /\ Len(state.mesh.rayDirections) = 3 * state.mesh.vertexCount
    /\ Len(state.mesh.baseDepths) = state.mesh.vertexCount
    /\ Len(state.mesh.uvs) = 2 * state.mesh.vertexCount
    /\ Len(state.mesh.indices) = state.mesh.meshX * state.mesh.meshY * 6

\* a mesh rebuilt for another field of view and then remapped: some position
\* is no longer its ray direction times its base depth
C20_Witness ==
  /\ state.mesh # NULL
  /\ state.meshConfig.geomFov # GEOM_FOV_DEFAULT
  /\ state.options.magnification # MAG_DEFAULT
  /\ \E k \in 1..Len(state.mesh.positions) :
       state.mesh.positions[k]
         # state.mesh.rayDirections[k] * state.mesh.baseDepths[(k - 1) \div 3 + 1]

(***************************************************************************)
(* The view: the wheel, the mouse, the Z offset slider and the stereo      *)
(* separation slider, next to the handlers above.                          *)
(***************************************************************************)
WheelDeltas == { -5000, 5000 }

MouseButtons == { 0, 2 }

\* the clientX and clientY of a mouse event
PointerPoints == { << 0, 0 >>, << 1000, 900 >> }

\* the values of the Z offset slider, in metres
ZOffsetInputs == { -7, 2 }

\* the values of the stereo separation slider, in millimetres
StereoInputs == { 50, 500 }

\* the wheel handler without the clamp of the scale
wheelScaledUnclamped(w, deltaY) ==
  [w EXCEPT !.state.controls.scale =
              (@ * (FxExp((0 - deltaY) * (FX \div 1000)) \div 100))
                \div (FX \div 100)]

\* the wheel handler: scale * Math.exp(-deltaY * 0.001), clamped
wheelScaled(w, deltaY) ==
  [w EXCEPT !.state.controls.scale =
              clamp((@ * (FxExp((0 - deltaY) * (FX \div 1000)) \div 100))
                      \div (FX \div 100),
                    MIN_SCALE, MAX_SCALE)]

\* the mousedown handler
mouseDown(w, button, point) ==
  IF button = 0
    THEN [w EXCEPT !.state.interaction.rotating = TRUE,
                   !.state.interaction.lastX = point[1],
                   !.state.interaction.lastY = point[2]]
  ELSE IF button = 2
    THEN [w EXCEPT !.state.interaction.dragging = TRUE,
                   !.state.interaction.lastX = point[1],
                   !.state.interaction.lastY = point[2]]
  ELSE w

\* the mouseup handler
mouseUp(w, button) ==
  [w EXCEPT !.state.interaction.rotating = IF button = 0 THEN FALSE ELSE @,
            !.state.interaction.dragging = IF button = 2 THEN FALSE ELSE @]

\* the mousemove handler while rotating
mouseRotated(w, point) ==
  IF ~w.state.interaction.rotating THEN w
  ELSE [w EXCEPT
          !.state.controls.rotationY =
            clamp(@ + (point[1] - w.state.interaction.lastX) * ROTATE_SENSITIVITY,
                  0 - MAX_ANGLE, MAX_ANGLE),
          !.state.controls.rotationX =
            clamp(@ + (point[2] - w.state.interaction.lastY) * ROTATE_SENSITIVITY,
                  0 - MAX_ANGLE, MAX_ANGLE),
          !.state.interaction.lastX = point[1],
          !.state.interaction.lastY = point[2]]

\* d * factor of the mousemove handler, factor =
\* 0.0003 * movementScale * (state.controls.scale + 0.2)
panStep(w, d) ==
  LET sizeFactor == IF w.state.baseBounds # NULL
                      THEN Max(Max(w.state.baseBounds.sizeX,
                                   w.state.baseBounds.sizeY), PosUnit \div 10)
                    ELSE PosUnit
      movementScale == Min(sizeFactor + (3 * PosUnit) \div 10, 10 * PosUnit)
  IN (((movementScale \div 10000) * 3 * d) \div 100)
       * (w.state.controls.scale + 20)

\* the mousemove handler while dragging
mouseDragged(w, point) ==
  IF ~w.state.interaction.dragging THEN w
  ELSE [w EXCEPT
          !.state.controls.translationX =
            @ + panStep(w, point[1] - w.state.interaction.lastX),
          !.state.controls.translationY =
            @ - panStep(w, point[2] - w.state.interaction.lastY),
          !.state.interaction.lastX = point[1],
          !.state.interaction.lastY = point[2]]

Wheel(deltaY) == Handled(wheelScaled(World, deltaY))

MouseDown(button, point) == Handled(mouseDown(World, button, point))

MouseUp(button) == Handled(mouseUp(World, button))

MouseMove(point) == Handled(mouseDragged(mouseRotated(World, point), point))

ZOffsetInput(value) ==
  Handled([World EXCEPT !.state.controls.translationZ =
                          clamp(value * PosUnit, 0 - MAX_Z_OFFSET,
                                MAX_Z_OFFSET)])

StereoSeparationInput(value) ==
  Handled([World EXCEPT !.state.stereo.separation =
                          clamp(value, STEREO_MIN, STEREO_MAX)])

NextView ==
  \/ Next
  \/ \E deltaY \in WheelDeltas : Wheel(deltaY)
  \/ \E button \in MouseButtons, point \in PointerPoints :
       MouseDown(button, point)
  \/ \E button \in MouseButtons : MouseUp(button)
  \/ \E point \in PointerPoints : MouseMove(point)
  \/ \E value \in ZOffsetInputs : ZOffsetInput(value)
  \/ \E value \in StereoInputs : StereoSeparationInput(value)

SpecView == Init /\ [][NextView]_vars

\* C22: the view controls stay in their ranges: scale in [0.05, 25],
\* rotationX and rotationY within 30 degrees of 0, controls.translationZ
\* in [-5, 5] and the stereo separation in [0, 0.10].
C22_ViewControlsInRange ==
  /\ state.controls.scale \in MIN_SCALE..MAX_SCALE
  /\ state.controls.rotationX \in (0 - MAX_ANGLE)..MAX_ANGLE
  /\ state.controls.rotationY \in (0 - MAX_ANGLE)..MAX_ANGLE
  /\ state.controls.translationZ \in (0 - MAX_Z_OFFSET)..MAX_Z_OFFSET
  /\ state.stereo.separation \in STEREO_MIN..STEREO_MAX

\* a wheel turn has scaled a loaded model up to the limit
C22_Witness ==
  /\ state.mesh # NULL
  /\ state.controls.scale = MAX_SCALE

(***************************************************************************)
(* The depth service: the status check init() starts, the Generate button  *)
(* and the generation request.  A call suspended in a fetch is an entry of *)
(* `loads` with pc "status" (checkBackend) or "fetch" (generateFromSource  *)
(* in requestDepthGeneration); once the generated file has arrived the     *)
(* entry is the handleFiles call generateFromSource awaits.                *)
(***************************************************************************)
\* the decode field of a call that is not yet reading a file
NoDecode ==
  [err |-> NONE, stages |-> << >>, asset |-> NoAsset, suspended |-> FALSE]

StatusCall ==
  [file |-> NULL, sourceType |-> "status", pc |-> "status",
   decode |-> NoDecode]

\* the files the source input may hold: none, or one photograph
SourceLists == { << >>, << [name |-> "photo.jpg"] >> }

\* the RGBDE files the service answers with
GeneratedNames == { "A.png", "odd.png" }

\* the errors requestDepthGeneration throws
GenerationErrors == { ERR_UNREACHABLE, ERR_GENERATION }

\* /unreachable/i.test(error.message), over the messages above
Unreachable(error) == error = ERR_UNREACHABLE

\* checkBackend down to its await of the status fetch
checkBackendCalled(w) == [w EXCEPT !.state.backend.checking = TRUE]

\* checkBackend from the answer of the status fetch on
checkBackendEnded(w, ok) ==
  setProcessing(
    [w EXCEPT !.state.backend =
                [available |-> ok,
                 device |-> IF ok THEN [name |-> "device"] ELSE NULL,
                 checking |-> FALSE,
                 note |-> IF ok THEN @.note ELSE NULL]],
    FALSE)

\* generateFromSource down to its await of requestDepthGeneration
generateFromSourceCalled(w) ==
  [setProcessing(w, TRUE) EXCEPT !.state.backend.note = NULL]

\* generateFromSource when requestDepthGeneration throws: the catch and the
\* finally block
generateFromSourceCatch(w, error, sourceFile) ==
  setProcessing(
    [w EXCEPT !.state.backend.available =
                IF Unreachable(error) THEN FALSE ELSE @,
              !.state.backend.note = sourceFile],
    FALSE)

\* the page after init(): the Generate button disabled and checkBackend
\* waiting for the status of the service
InitBackend ==
  /\ state = checkBackendCalled([state |-> InitialState]).state
  /\ renderer = [positions |-> << >>, uvs |-> << >>, indices |-> << >>,
                 indexCount |-> 0, texture |-> NULL]
  /\ saveButton = [disabled |-> TRUE, textContent |-> SAVE_LABEL_GENERATED]
  /\ generateButton = [disabled |-> TRUE,
                       textContent |-> GENERATE_LABEL_DEFAULT]
  /\ status = Status("", "")
  /\ console = NONE
  /\ loads = << StatusCall >>
  /\ hasDecompressionStream \in BOOLEAN
  /\ events = 0
  /\ remapCalls = << >>
  /\ probe = NULL

\* the status fetch of call i is answered (ok) or fails
StatusArrives(i, ok) ==
  /\ i \in DOMAIN loads
  /\ loads[i].pc = "status"
  /\ loads' = RemoveAt(loads, i)
  /\ status' = IF ok THEN status ELSE Status(MSG_NOT_REACHABLE, "")
  /\ Commit(checkBackendEnded(World, ok))
  /\ UNCHANGED << console, hasDecompressionStream, events, probe >>

\* a click on the Generate button, which the page delivers only to a button
\* that is not disabled
GenerateClick(files) ==
  /\ ~generateButton.disabled
  /\ events < MaxEvents
  /\ events' = events + 1
  /\ IF state.processing
       THEN UNCHANGED << state, renderer, saveButton, generateButton, status,
                         loads, remapCalls >>
     ELSE IF ~state.backend.available
       THEN /\ status' = Status(MSG_UNAVAILABLE, "")
            /\ loads' = Append(loads, StatusCall)
            /\ Commit(checkBackendCalled(World))
     ELSE IF files = << >>
       THEN UNCHANGED << state, renderer, saveButton, generateButton, status,
                         loads, remapCalls >>
     ELSE /\ status' = Status(MSG_GENERATING, files[1].name)
          /\ loads' =
               Append(loads,
                      [file |-> files[1], sourceType |-> "generated",
                       pc |-> "fetch", decode |-> NoDecode])
          /\ Commit(generateFromSourceCalled(World))
  /\ UNCHANGED << console, hasDecompressionStream, probe >>

\* the request of call i fails: requestDepthGeneration throws `error`
FetchFails(i, error) ==
  /\ i \in DOMAIN loads
  /\ loads[i].pc = "fetch"
  /\ loads' = RemoveAt(loads, i)
  /\ console' = error
  /\ status' = Status(error, "")
  /\ Commit(generateFromSourceCatch(World, error, loads[i].file.name))
  /\ UNCHANGED << hasDecompressionStream, events, probe >>

\* the request of call i is answered with the file `name`: generateFromSource
\* calls handleFiles, which runs to its await of decodeRgbdeFile
FetchSucceeds(i, name) ==
  /\ i \in DOMAIN loads
  /\ loads[i].pc = "fetch"
  /\ loads' =
       [loads EXCEPT ![i] =
          [file |-> [name |-> name], sourceType |-> "generated",
           pc |-> "read",
           decode |-> Decoded[hasDecompressionStream][name]]]
  /\ status' = Status(MSG_LOADING, "")
  /\ UNCHANGED << state, renderer, saveButton, generateButton, console,
                  hasDecompressionStream, events, remapCalls, probe >>

NextBackend ==
  \/ Next
  \/ \E i \in DOMAIN loads : \E ok \in BOOLEAN : StatusArrives(i, ok)
  \/ \E files \in SourceLists : GenerateClick(files)
  \/ \E i \in DOMAIN loads : \E error \in GenerationErrors :
       FetchFails(i, error)
  \/ \E i \in DOMAIN loads : \E name \in GeneratedNames :
       FetchSucceeds(i, name)

SpecBackend == InitBackend /\ [][NextBackend]_vars

\* the requests to /api/process that are in flight
RequestsInFlight == { i \in DOMAIN loads : loads[i].pc = "fetch" }

\* the generateFromSource calls that have not returned
GenerationsPending ==
  { i \in DOMAIN loads : loads[i].sourceType = "generated" }

\* C28: at most one generation request is in flight and none is sent but by
\* a click that finds no generation in progress (so a failed request is not
\* sent again by the page itself); state.processing is true exactly while a
\* generateFromSource call has not returned; and the Generate button is
\* enabled exactly when the backend is marked available and no generation
\* is in progress.
C28_OneGenerationAtATime ==
  /\ [](/\ Cardinality(RequestsInFlight) <= 1
        /\ Cardinality(GenerationsPending) <= 1
        /\ state.processing <=> GenerationsPending # { }
        /\ ~generateButton.disabled
             <=> (state.backend.available /\ ~state.processing))
  /\ [][Len(SelectSeq(loads', LAMBDA c : c.pc = "fetch"))
          > Len(SelectSeq(loads, LAMBDA c : c.pc = "fetch"))
        => /\ events' = events + 1
           /\ ~state.processing
           /\ state'.processing]_vars

\* a request has failed with the service still reachable: processing is
\* false again, the button is enabled and nothing is in flight
C28_Witness ==
  /\ console = ERR_GENERATION
  /\ status = Status(ERR_GENERATION, "")
  /\ ~state.processing
  /\ ~generateButton.disabled
  /\ RequestsInFlight = { }

(***************************************************************************)
(* The remap bench: updateVertexPositions applied, with any options and    *)
(* any number of times, to the meshes generatePerspectiveMesh makes of the *)
(* decoded images.  probe holds the mesh as generated (fresh), the mesh    *)
(* the remaps have written to, the options of the last remap and what the  *)
(* position buffer held before it.                                         *)
(***************************************************************************)
\* the number of remaps of a run
MaxRemaps == 2

RemapAssets == { Decoded[TRUE][n].asset : n \in { "A.png", "B.360.png" } }

\* the tessellations (meshX, meshY) and the fields of view of the bench
RemapGrids == { << 1, 1 >>, << 2, 2 >>, << 3, 2 >> }

RemapFovs == { 60, 90 }

RemapMeshes ==
  { generatePerspectiveMesh(a.depth, a.width, a.height, g[1], g[2],
                            a.depthStats.min, a.depthStats.max, f) :
      a \in RemapAssets, g \in RemapGrids, f \in RemapFovs }

\* DepthTransformOptions: magnification 1.0 is 10; a far clip of 1 m, 5 m,
\* 20 m or none
RemapOptions ==
  [mode : { "linear", "log" },
   magnification : { 10, 5, 32 },
   farClip : { INFINITY, FAR_MIN, 5 * DEPTH_DIVISOR, 20 * DEPTH_DIVISOR },
   logPower : { 10, 20 }]

InitRemap ==
  /\ AppInit
  /\ hasDecompressionStream = TRUE
  /\ probe \in { [kind |-> "remap", fresh |-> m, mesh |-> m, options |-> NULL,
                  before |-> m.positions, calls |-> 0] : m \in RemapMeshes }

\* updateVertexPositions(mesh, options)
Remap(options) ==
  /\ probe.calls < MaxRemaps
  /\ probe' = [probe EXCEPT !.mesh = updateVertexPositions(probe.mesh, options),
                            !.options = options,
                            !.before = probe.mesh.positions,
                            !.calls = @ + 1]
  /\ UNCHANGED appVars

NextRemap == \E options \in RemapOptions : Remap(options)

SpecRemap == InitRemap /\ [][NextRemap]_vars

\* the vertices of the bench mesh
Vertices == 1..Len(probe.mesh.baseDepths)

\* the depth of vertex i along its ray, read off its z coordinate (the z of
\* a ray is never 0)
DepthOf(i) ==
  (0 - probe.mesh.positions[3 * i]) \div (0 - probe.mesh.rayDirections[3 * i])

\* every coordinate of vertex i is its ray's times `depth`
AtDepth(i, depth) ==
  \A c \in 1..3 :
    probe.mesh.positions[3 * (i - 1) + c]
      = probe.mesh.rayDirections[3 * (i - 1) + c] * depth

\* the least depth a remap leaves a vertex at
NearLimit == Max(probe.mesh.baseDepthMin, MIN_DEPTH_CLAMP) + NEAR_EPSILON

IdentityRemapped ==
  /\ probe.calls > 0
  /\ probe.options.mode = "linear"
  /\ probe.options.magnification = 10
  /\ probe.options.farClip = INFINITY

\* C3, as stated: after a remap with mode linear, magnification 1 and no far
\* clip, every vertex is at its ray direction times its base depth.
C3_RemapIdentityExact ==
  IdentityRemapped => \A i \in Vertices : AtDepth(i, probe.mesh.baseDepths[i])

\* C3, amended: after a remap with mode linear, magnification 1 and no far
\* clip, every vertex whose base depth is at least 0.001 above
\* max(baseDepthMin, 0.15) is at its ray direction times its base depth, and
\* every other vertex is at its ray direction times that near limit.
C3_RemapIdentityAboveNear ==
  IdentityRemapped =>
    \A i \in Vertices : AtDepth(i, Max(probe.mesh.baseDepths[i], NearLimit))

\* an identity remap has run on a mesh with a vertex above the near limit
\* (which it leaves in place) and one below it (which it moves)
C3_Witness ==
  /\ IdentityRemapped
  /\ \E i \in Vertices : probe.mesh.baseDepths[i] > NearLimit
  /\ \E i \in Vertices :
       /\ probe.mesh.baseDepths[i] < NearLimit
       /\ ~AtDepth(i, probe.mesh.baseDepths[i])

\* C4: after a remap with a finite far clip every vertex lies on its ray at
\* a depth of at most farClip, and at exactly farClip when its scaled depth
\* exceeds farClip.
C4_FarClip ==
  (probe.calls > 0 /\ probe.options.farClip # INFINITY) =>
    \A i \in Vertices :
      /\ AtDepth(i, DepthOf(i))
      /\ DepthOf(i) <= probe.options.farClip
      /\ scaledDepth(probe.fresh.baseDepths[i], probe.fresh.baseDepthMin,
                     probe.options) > probe.options.farClip
           => AtDepth(i, probe.options.farClip)

\* a remap with a far clip of 5 m has brought a vertex scaled beyond it to
\* exactly 5 m
C4_Witness ==
  /\ probe.calls > 0
  /\ probe.options.farClip = 5 * DEPTH_DIVISOR
  /\ \E i \in Vertices :
       /\ scaledDepth(probe.fresh.baseDepths[i], probe.fresh.baseDepthMin,
                      probe.options) > 5 * DEPTH_DIVISOR
       /\ AtDepth(i, 5 * DEPTH_DIVISOR)

\* C5: the positions a remap writes are a function of the ray directions,
\* the base depths, baseDepthMin and the options of that call alone: after
\* any sequence of remaps every vertex is where the last options put the
\* vertex of the mesh as generated, whatever the position buffer held before.
C5_RemapNoHiddenState ==
  probe.calls > 0 =>
    \A k \in 1..(3 * Len(probe.fresh.baseDepths)) :
      probe.mesh.positions[k]
        = probe.fresh.rayDirections[k]
            * remapDepth(probe.fresh.baseDepths[(k - 1) \div 3 + 1],
                         probe.fresh.baseDepthMin, probe.options)

\* a remap has run on a position buffer that an earlier remap, with other
\* options, had left different from the generated one and from its own result
C5_Witness ==
  /\ probe.calls >= 2
  /\ probe.before # probe.fresh.positions
  /\ probe.before # probe.mesh.positions

\* C6: a remap changes no field of the mesh but positions: rayDirections,
\* baseDepths, uvs, indices, vertexCount, baseDepthMin, baseDepthMax, meshX
\* and meshY (and the rest) are after the call what they were before it.
C6_RemapWritesPositionsOnly ==
  [][\A f \in (DOMAIN probe.mesh) \ { "positions" } :
       probe'.mesh[f] = probe.mesh[f]]_vars

\* a remap has changed the position buffer of a mesh whose other fields are
\* those of the mesh as generated
C6_Witness ==
  /\ probe.calls > 0
  /\ probe.mesh.positions # probe.before
  /\ [probe.mesh EXCEPT !.positions = << >>]
       = [probe.fresh EXCEPT !.positions = << >>]

(***************************************************************************)
(* The decode bench: decodeRgbdeFile applied to a family of containers,    *)
(* sound and malformed, on platforms with and without a                    *)
(* DecompressionStream.  probe holds the container's descriptor, what      *)
(* parsePng made of it and what decodeRgbdeFile did.                       *)
(***************************************************************************)
DecodeInputs ==
  [sig : BOOLEAN, layout : LAYOUTS, bitDepth : { 8, 16 }, colorType : { 6, 2 },
   extraCol : { 0, 1 }, img : { "A" }, filter : { 0, 2, 5 }, zlib : BOOLEAN]

InitDecode ==
  /\ AppInit
  /\ probe \in { [kind |-> "decode", fd |-> fd, done |-> FALSE, png |-> NULL,
                  result |-> NULL] : fd \in DecodeInputs }

\* decodeRgbdeFile(file)
Decode ==
  /\ ~probe.done
  /\ probe' = [probe EXCEPT
                 !.done = TRUE,
                 !.png = parsePng(FileBytes(probe.fd), hasDecompressionStream),
                 !.result = decodeRgbdeFile(FileBytes(probe.fd),
                                            hasDecompressionStream)]
  /\ UNCHANGED appVars

NextDecode == Decode

SpecDecode == InitDecode /\ [][NextDecode]_vars

\* The messages by the kind of error the specification gives them.
FormatErrors == { ERR_SIGNATURE, ERR_EVEN, ERR_FILTER }

UnsupportedEncodingErrors == { ERR_FORMAT, ERR_DEFLATE }

\* the stages after parsePng: the work on the pixels
PixelStages == { "split", "denoise", "stats", "image" }

StagesRun(r) == { r.stages[k] : k \in DOMAIN r.stages }

\* the IHDR chunk the walk read declares something other than 8-bit RGBA
DeclaresOtherFormat ==
  /\ probe.png.ihdrSeen > 0
  /\ probe.fd.bitDepth # 8 \/ probe.fd.colorType # 6

\* C7: when parsePng returns a pixel buffer of odd width, decodeRgbdeFile
\* throws the even-width error, and neither the split, the denoiser, the
\* statistics nor the image ran, and there is no asset.
C7_OddWidthRejected ==
  (probe.done /\ probe.png.err = NONE /\ probe.png.width % 2 = 1) =>
    /\ probe.result.err = ERR_EVEN
    /\ probe.result.err \in FormatErrors
    /\ StagesRun(probe.result) \cap PixelStages = {}
    /\ probe.result.asset = NoAsset

\* a container of odd width has been through parsePng and refused
C7_Witness ==
  /\ probe.done
  /\ probe.png.err = NONE
  /\ probe.png.width = 5
  /\ probe.png.data # << >>
  /\ probe.result.err = ERR_EVEN

\* C8, as stated: when parsePng has read no IHDR chunk before the IEND chunk
\* or the end of the input, it throws a format error and does not call
\* inflateData, let alone return a pixel buffer.
C8_MetadataRequired ==
  (probe.done /\ probe.png.ihdrSeen = 0) =>
    /\ probe.png.err \in FormatErrors
    /\ "inflate" \notin StagesRun(probe.png)

\* C9: a decode that reads an IHDR declaring another bit depth or colour
\* type throws the unsupported-format error, a decode that reaches
\* inflateData on a platform without DecompressionStream throws the
\* no-deflate error, and these two messages, which differ from those of the
\* format errors, are thrown for no other cause.
C9_UnsupportedEncoding ==
  probe.done =>
    /\ DeclaresOtherFormat => probe.result.err = ERR_FORMAT
    /\ (~hasDecompressionStream /\ "inflate" \in StagesRun(probe.result))
         => probe.result.err = ERR_DEFLATE
    /\ probe.result.err \in UnsupportedEncodingErrors
         => /\ probe.result.err \notin FormatErrors
            /\ DeclaresOtherFormat \/ ~hasDecompressionStream

\* a sound container but for its 16-bit samples has been refused as an
\* unsupported format, before any inflate
C9_Witness ==
  /\ probe.done
  /\ probe.fd = [GoodFile("A") EXCEPT !.bitDepth = 16]
  /\ probe.result.err = ERR_FORMAT
  /\ probe.result.stages = << "read", "chunks" >>

(***************************************************************************)
(* The defilter bench: the row loop of parsePng applied to inflated        *)
(* streams of every selector sequence.  probe holds the stream, the        *)
(* dimensions of the IHDR and the pixel buffer or the error.               *)
(***************************************************************************)
\* the greatest number of rows of a stream
MaxRows == 3

\* the widths, in pixels, of a stream
DefilterWidths == { 1, 2 }

\* Two rows of two pixels whose second row, Paeth-filtered over an unfiltered
\* first, has in its second pixel a channel where left and up-left are equally
\* near, one where up and up-left are, one where up-left is nearest and one
\* where up is (left, up, up-left = 80, 110, 100; 110, 80, 100; 150, 50, 100;
\* 100, 130, 100).
TieBytes ==
  << 0, 100, 100, 100, 100, 110, 80, 50, 130,
     4, 236, 10, 50, 0, 1, 2, 3, 4 >>

\* four byte patterns: a constant that wraps, an arithmetic and a quadratic
\* progression, and the rows of TieBytes over and over
PatternByte(pattern, k) ==
  CASE pattern = 1 -> 200
    [] pattern = 2 -> (57 * k + 31) % 256
    [] pattern = 3 -> (13 * k * k + 7 * k) % 256
    [] pattern = 4 -> TieBytes[((k - 1) % Len(TieBytes)) + 1]

\* the inflated stream of the rows with the selectors `selectors`
PatternStream(pattern, width, selectors) ==
  [j \in 1..(Len(selectors) * (4 * width + 1)) |->
     IF (j - 1) % (4 * width + 1) = 0
       THEN selectors[(j - 1) \div (4 * width + 1) + 1]
     ELSE PatternByte(pattern, j)]

SelectorSequences == UNION { [1..h -> 0..5] : h \in 2..MaxRows }

InitDefilter ==
  /\ AppInit
  /\ hasDecompressionStream = TRUE
  /\ probe \in { [kind |-> "defilter", width |-> w, height |-> Len(sel),
                  inflated |-> PatternStream(p, w, sel), done |-> FALSE,
                  png |-> NULL] :
                  p \in 1..4, w \in DefilterWidths, sel \in SelectorSequences }

\* the row loop of parsePng and its return
Defilter ==
  /\ ~probe.done
  /\ probe' = [probe EXCEPT
                 !.done = TRUE,
                 !.png = defilter(probe.width, probe.height, probe.inflated)]
  /\ UNCHANGED appVars

NextDefilter == Defilter

SpecDefilter == InitDefilter /\ [][NextDefilter]_vars

\* The reference: byte x of row y of the bench stream, its selector, and its
\* neighbours in the pixel buffer the bench holds (0 beyond the edges).
Stride == 4 * probe.width

Selector(y) == probe.inflated[y * (Stride + 1) + 1]

Filtered(y, x) == probe.inflated[y * (Stride + 1) + 1 + x + 1]

Pixel(y, x) == probe.png.data[y * Stride + x + 1]

Left(y, x) == IF x >= 4 THEN Pixel(y, x - 4) ELSE 0

Up(y, x) == IF y > 0 THEN Pixel(y - 1, x) ELSE 0

UpLeft(y, x) == IF y > 0 /\ x >= 4 THEN Pixel(y - 1, x - 4) ELSE 0

\* the one of a, b, c nearest to a + b - c: a before b before c
NearestOf(a, b, c) ==
  LET least == Min(Abs(b - c), Min(Abs(a - c), Abs(a + b - 2 * c)))
  IN IF Abs(b - c) = least THEN a
     ELSE IF Abs(a - c) = least THEN b
     ELSE c

Predictor(y, x) ==
  CASE Selector(y) = 0 -> 0
    [] Selector(y) = 1 -> Left(y, x)
    [] Selector(y) = 2 -> Up(y, x)
    [] Selector(y) = 3 -> (Left(y, x) + Up(y, x)) \div 2
    [] Selector(y) = 4 -> NearestOf(Left(y, x), Up(y, x), UpLeft(y, x))

\* C10: when every row's selector is within 0..4 the loop returns a buffer
\* of height * stride bytes, each the filtered byte plus its row's predictor
\* modulo 256 (nothing, left, up, the floor of their mean, or the Paeth
\* choice among left, up and up-left); when some selector is not, it throws
\* the filter error and there is no buffer.
C10_DefilterMatchesReference ==
  probe.done =>
    IF \A y \in 0..(probe.height - 1) : Selector(y) \in 0..4
      THEN /\ probe.png.err = NONE
           /\ Len(probe.png.data) = probe.height * Stride
           /\ \A y \in 0..(probe.height - 1) : \A x \in 0..(Stride - 1) :
                Pixel(y, x) = (Filtered(y, x) + Predictor(y, x)) % 256
    ELSE /\ probe.png.err = ERR_FILTER
         /\ probe.png.data = << >>

\* the distance of v from left + up - up-left at byte x of row y
PaethDistance(v, y, x) == Abs(Left(y, x) + Up(y, x) - UpLeft(y, x) - v)

\* a stream has been defiltered whose second row is Paeth-filtered and has a
\* byte where left and up-left tie nearest and left was taken, a byte where
\* up and up-left tie nearest and up was taken, and a byte where up-left
\* alone is nearest and was taken
C10_Witness ==
  /\ probe.done
  /\ probe.png.err = NONE
  /\ Selector(1) = 4
  /\ \E x \in 4..(Stride - 1) :
       /\ Left(1, x) # UpLeft(1, x)
       /\ PaethDistance(Left(1, x), 1, x) = PaethDistance(UpLeft(1, x), 1, x)
       /\ PaethDistance(Left(1, x), 1, x) < PaethDistance(Up(1, x), 1, x)
       /\ Pixel(1, x) = (Filtered(1, x) + Left(1, x)) % 256
  /\ \E x \in 4..(Stride - 1) :
       /\ Up(1, x) # UpLeft(1, x)
       /\ PaethDistance(Up(1, x), 1, x) = PaethDistance(UpLeft(1, x), 1, x)
       /\ PaethDistance(Up(1, x), 1, x) < PaethDistance(Left(1, x), 1, x)
       /\ Pixel(1, x) = (Filtered(1, x) + Up(1, x)) % 256
  /\ \E x \in 4..(Stride - 1) :
       /\ PaethDistance(UpLeft(1, x), 1, x) < PaethDistance(Left(1, x), 1, x)
       /\ PaethDistance(UpLeft(1, x), 1, x) < PaethDistance(Up(1, x), 1, x)
       /\ Pixel(1, x) = (Filtered(1, x) + UpLeft(1, x)) % 256

(***************************************************************************)
(* The depth-decode bench: the depth of one pixel of the right half, for   *)
(* bytes over the whole range.                                             *)
(***************************************************************************)
ByteSamples == { 0, 1, 16, 127, 128, 255 }

InitDepth ==
  /\ AppInit
  /\ hasDecompressionStream = TRUE
  /\ probe \in { [kind |-> "depth", r |-> r, g |-> g, b |-> b, a |-> a,
                  done |-> FALSE, depth |-> NULL] :
                  r \in ByteSamples, g \in ByteSamples, b \in ByteSamples,
                  a \in ByteSamples }

\* the body of the depth loop of decodeRgbdeFile for one pixel
DecodeDepth ==
  /\ ~probe.done
  /\ probe' = [probe EXCEPT
                 !.done = TRUE,
                 !.depth = depthOf(probe.r, probe.g, probe.b, probe.a)]
  /\ UNCHANGED appVars

NextDepth == DecodeDepth

SpecDepth == InitDepth /\ [][NextDepth]_vars

\* C11: the decoded integer of a pixel (R, G, B, A) is
\* R + 256 G + 65536 B + 16777216 A, between 0 and 2^32 - 1 also when
\* A >= 128, and the depth is that integer over 10000.
C11_DepthDecodeUnsigned ==
  probe.done =>
    /\ probe.depth.num.hi = 256 * probe.a + probe.b
    /\ probe.depth.num.lo = 256 * probe.g + probe.r
    /\ probe.depth.num.hi \in 0..65535
    /\ probe.depth.num.lo \in 0..65535
    /\ probe.depth.den = 10000
    /\ (probe.r = 16 /\ probe.g = 0 /\ probe.b = 0 /\ probe.a = 0)
         => probe.depth = [num |-> [hi |-> 0, lo |-> 16], den |-> 10000]
    /\ (probe.r = 0 /\ probe.g = 0 /\ probe.b = 0 /\ probe.a = 1)
         => probe.depth = [num |-> [hi |-> 256, lo |-> 0], den |-> 10000]

\* a pixel whose alpha byte has its top bit set has been decoded
C11_Witness ==
  /\ probe.done
  /\ probe.a >= 128
  /\ probe.depth.num.hi >= 32768

(***************************************************************************)
(* The denoise bench: decodeRgbdeFile from the pixel buffer on, one stage  *)
(* at a time, for synthetic images: a depth field, at most one disturbed   *)
(* pixel, and a colour pattern.                                            *)
(***************************************************************************)
\* the rows of the images of the bench
DenoiseRows == 3

DenoiseWidths == { 3, 4 }

\* the fields: their kind and their step per pixel
DenoiseFields ==
  { [kind |-> "const", step |-> 0], [kind |-> "zero", step |-> 0],
    [kind |-> "split", step |-> 0],
    [kind |-> "rampX", step |-> 1000], [kind |-> "rampX", step |-> 5000],
    [kind |-> "rampY", step |-> 1000], [kind |-> "rampXY", step |-> 1000] }

\* what the disturbed pixel holds: nothing, or its field value plus this
Disturbances == { 0, 4000, 10000 }

ColorPatterns == { "uniform", "noise", "spot" }

\* the depth of the field at pixel (x, y): 1 m at the first pixel, and 1.7 m
\* on the far side of "split"
FieldDepth(field, x, y) ==
  CASE field.kind = "const" -> 10000
    [] field.kind = "zero" -> 0
    [] field.kind = "split" -> IF x = 0 THEN 10000 ELSE 17000
    [] field.kind = "rampX" -> 10000 + field.step * x
    [] field.kind = "rampY" -> 10000 + field.step * y
    [] field.kind = "rampXY" -> 10000 + field.step * (x + y)

\* the colour of pixel i (from 0), the disturbed pixel being `at`
PatternColor(pattern, i, at) ==
  CASE pattern = "uniform" -> << 100, 100, 100 >>
    [] pattern = "noise" -> << 100 + 5 * (i % 3), 100, 100 - 4 * (i % 2) >>
    [] pattern = "spot" ->
         IF i = at THEN << 255, 0, 0 >> ELSE << 100, 100, 100 >>

\* the image of a descriptor: `at` is the disturbed pixel (from 0), or -1
DenoiseImage(d) ==
  [width |-> d.width, height |-> DenoiseRows,
   colors |-> [i \in 1..(d.width * DenoiseRows) |->
                 PatternColor(d.colors, i - 1, d.at)],
   depths |-> [i \in 1..(d.width * DenoiseRows) |->
                 IF i - 1 # d.at
                   THEN FieldDepth(d.field, (i - 1) % d.width,
                                   (i - 1) \div d.width)
                 ELSE IF d.disturbance = 0 THEN 0
                 ELSE FieldDepth(d.field, (i - 1) % d.width,
                                 (i - 1) \div d.width) + d.disturbance]]

\* the pixel buffer parsePng returns for the container of image `img`
PixelBuffer(img) ==
  [width |-> 2 * img.width, height |-> img.height,
   data |-> [j \in 1..(8 * img.width * img.height) |->
               PixelRow(img, (j - 1) \div (8 * img.width), 0)
                 [((j - 1) % (8 * img.width)) + 1]]]

DenoiseInputs ==
  { [width |-> w, field |-> f, at |-> -1, disturbance |-> 0, colors |-> c] :
      w \in DenoiseWidths, f \in DenoiseFields, c \in ColorPatterns }
  \cup
  { [width |-> w, field |-> f, at |-> at, disturbance |-> v, colors |-> c] :
      w \in DenoiseWidths, f \in DenoiseFields, c \in ColorPatterns,
      at \in { 0, 1, 4, 5 }, v \in Disturbances }

InitDenoise ==
  /\ AppInit
  /\ hasDecompressionStream = TRUE
  /\ probe \in { [kind |-> "denoise", in |-> d,
                  png |-> PixelBuffer(DenoiseImage(d)), stage |-> "parsed",
                  width |-> d.width, height |-> DenoiseRows,
                  leftPixels |-> << >>, raw |-> << >>, passA |-> << >>,
                  passB |-> << >>, stats |-> NULL] : d \in DenoiseInputs }

\* the split of the pixel buffer and the decoding of its depth half
SplitStage ==
  /\ probe.stage = "parsed"
  /\ probe' = [probe EXCEPT !.stage = "split",
                            !.leftPixels = Filled(leftPixelsOf(probe.png)),
                            !.raw = Filled(depthValuesOf(probe.png))]
  /\ UNCHANGED appVars

\* Pass A
SpikeStage ==
  /\ probe.stage = "split"
  /\ probe' = [probe EXCEPT
                 !.stage = "passA",
                 !.passA = Filled(reduceDepthSpikes(probe.raw, probe.leftPixels,
                                                    probe.width, probe.height))]
  /\ UNCHANGED appVars

\* Pass B
SmoothStage ==
  /\ probe.stage = "passA"
  /\ probe' = [probe EXCEPT
                 !.stage = "passB",
                 !.passB = Filled(applyEdgeAwareSmooth(
                                    probe.passA, probe.leftPixels, probe.width,
                                    probe.height))]
  /\ UNCHANGED appVars

\* computeDepthStats of the grid the asset keeps
StatsStage ==
  /\ probe.stage = "passB"
  /\ probe' = [probe EXCEPT !.stage = "stats",
                            !.stats = computeDepthStats(probe.passB)]
  /\ UNCHANGED appVars

NextDenoise == SplitStage \/ SpikeStage \/ SmoothStage \/ StatsStage

SpecDenoise == InitDenoise /\ [][NextDenoise]_vars

\* the pixels of the bench image, from 1
DenoisePixels == 1..(probe.width * probe.height)

\* the stage of the bench is at or past `stage`
Reached(stage) ==
  \E i, j \in 1..5 :
    /\ i <= j
    /\ << "parsed", "split", "passA", "passB", "stats" >>[i] = stage
    /\ << "parsed", "split", "passA", "passB", "stats" >>[j] = probe.stage

\* C12: every value of the raw decoded grid, of the output of Pass A and of
\* the output of Pass B is 0 or positive.
C12_DepthsNonNegative ==
  /\ Reached("split") => \A i \in DenoisePixels : probe.raw[i] >= 0
  /\ Reached("passA") => \A i \in DenoisePixels : probe.passA[i] >= 0
  /\ Reached("passB") => \A i \in DenoisePixels : probe.passB[i] >= 0

\* the three grids of an image with a missing pixel have been produced, and
\* Pass B has lowered a positive depth
C12_Witness ==
  /\ Reached("passB")
  /\ \E i \in DenoisePixels : probe.raw[i] = 0
  /\ \E i \in DenoisePixels :
       /\ probe.passB[i] > 0
       /\ probe.passB[i] < probe.passA[i]

\* C13: depthStats.min and depthStats.max are the least and the greatest of
\* the positive values of the asset's grid, so 0 < min <= max; when no value
\* is positive, min is 0.15 and max is min + 1.
C13_DepthStatsOverPositive ==
  Reached("stats") =>
    IF \E i \in DenoisePixels : probe.passB[i] > 0
      THEN /\ \E i \in DenoisePixels : probe.passB[i] = probe.stats.min
           /\ \E i \in DenoisePixels : probe.passB[i] = probe.stats.max
           /\ \A i \in DenoisePixels :
                probe.passB[i] > 0 =>
                  /\ probe.stats.min <= probe.passB[i]
                  /\ probe.passB[i] <= probe.stats.max
           /\ 0 < probe.stats.min
           /\ probe.stats.min <= probe.stats.max
    ELSE /\ probe.stats.min = 1500
         /\ probe.stats.max = 1500 + 10000

\* the statistics of a grid with a zero and two different positive depths
C13_Witness ==
  /\ Reached("stats")
  /\ \E i \in DenoisePixels : probe.passB[i] = 0
  /\ 0 < probe.stats.min
  /\ probe.stats.min < probe.stats.max

\* The reference of Pass A: the 3x3 window of pixel i (from 1) of the raw
\* grid with its coordinates clamped, entry 5 being the pixel itself.
WindowPixel(i, k) ==
  LET x == ((i - 1) % probe.width) + ((k - 1) % 3) - 1
      y == ((i - 1) \div probe.width) + ((k - 1) \div 3) - 1
  IN Max(0, Min(probe.height - 1, y)) * probe.width
       + Max(0, Min(probe.width - 1, x)) + 1

\* the median of the window: at most 4 of its 9 values on either side
WindowMedian(i) ==
  CHOOSE m \in { probe.raw[WindowPixel(i, k)] : k \in 1..9 } :
    /\ Cardinality({ k \in 1..9 : probe.raw[WindowPixel(i, k)] < m }) <= 4
    /\ Cardinality({ k \in 1..9 : probe.raw[WindowPixel(i, k)] > m }) <= 4

\* the neighbours within 0.12 of the median
StableNeighbours(i) ==
  { k \in (1..9) \ { 5 } :
      Abs(probe.raw[WindowPixel(i, k)] - WindowMedian(i)) < 1200 }

\* the colour distances to the 8 neighbours, summed
ColourDistanceSum(i) ==
  SeqSum([k \in 1..8 |->
            pixelColorDistance(probe.leftPixels, i - 1,
                               WindowPixel(i, IF k < 5 THEN k ELSE k + 1) - 1)])

IsSpike(i) ==
  /\ probe.raw[i] > 0
  /\ Abs(probe.raw[i] - WindowMedian(i)) > 4500
  /\ Cardinality(StableNeighbours(i)) >= 5
  /\ ColourDistanceSum(i) < 8 * 1000

\* C14: Pass A gives a pixel the median of its clamped 3x3 window exactly
\* when its depth is positive, more than 0.45 from the median, at least 5 of
\* its 8 neighbours are within 0.12 of the median and the mean colour
\* distance to the neighbours is below 0.1; otherwise its input value.  The
\* centre 2.0 of a field of 1.0 of one colour becomes 1.0.
C14_SpikeRejection ==
  Reached("passA") =>
    /\ \A i \in DenoisePixels :
         probe.passA[i] = IF IsSpike(i) THEN WindowMedian(i) ELSE probe.raw[i]
    /\ probe.in = [width |-> 3, field |-> [kind |-> "const", step |-> 0],
                   at |-> 4, disturbance |-> 10000, colors |-> "uniform"]
         => /\ probe.raw[5] = 20000
            /\ probe.passA[5] = 10000

\* Pass A has replaced a pixel that is far from the median of its window
C14_Witness ==
  /\ Reached("passA")
  /\ \E i \in DenoisePixels :
       /\ IsSpike(i)
       /\ probe.passA[i] # probe.raw[i]
       /\ probe.passA[i] = WindowMedian(i)

\* C15: a pixel of depth 0 or less has the same value after Pass A and after
\* Pass B.
C15_MissingDepthPassesThrough ==
  Reached("passB") =>
    \A i \in DenoisePixels :
      probe.raw[i] <= 0 =>
        /\ probe.passA[i] = probe.raw[i]
        /\ probe.passB[i] = probe.raw[i]

\* a missing pixel among positive ones of another colour has passed both
C15_Witness ==
  /\ Reached("passB")
  /\ probe.in.colors # "uniform"
  /\ \E i \in DenoisePixels :
       /\ probe.raw[i] = 0
       /\ probe.passB[i] = 0
       /\ \A k \in (1..9) \ { 5 } :
            WindowPixel(i, k) # i => probe.raw[WindowPixel(i, k)] > 0

\* the input of the bench is a constant field or a planar ramp, of one colour
SmoothInput ==
  /\ probe.in.at = -1
  /\ probe.in.colors = "uniform"
  /\ probe.in.field.kind \in { "const", "rampX", "rampY", "rampXY" }

\* the window of pixel i is clamped in no direction the field varies along
Balanced(i) ==
  /\ probe.in.field.kind \in { "rampX", "rampXY" }
       => ((i - 1) % probe.width) \in 1..(probe.width - 2)
  /\ probe.in.field.kind \in { "rampY", "rampXY" }
       => ((i - 1) \div probe.width) \in 1..(probe.height - 2)

\* C16 as stated: Pass A and Pass B leave every pixel of a constant field or
\* a planar ramp of one colour at its input value, those on the border too.
C16_SmoothFieldUnchanged ==
  (Reached("passB") /\ SmoothInput) =>
    \A i \in DenoisePixels : probe.passB[i] = probe.raw[i]

\* C16: Pass A and Pass B leave at its input value every pixel of a constant
\* field of one colour, and every pixel of a planar ramp of one colour whose
\* window is clamped in no direction the ramp varies along (its inner pixels
\* among them).
C16_SmoothFieldUnchangedInside ==
  (Reached("passB") /\ SmoothInput) =>
    \A i \in DenoisePixels : Balanced(i) => probe.passB[i] = probe.raw[i]

\* a planar ramp has passed both passes with an inner pixel and a pixel on
\* the border the ramp crosses
C16_Witness ==
  /\ Reached("passB")
  /\ SmoothInput
  /\ probe.in.field.kind = "rampXY"
  /\ \E i \in DenoisePixels : Balanced(i) /\ probe.passB[i] = probe.raw[i]
  /\ \E i \in DenoisePixels : ~Balanced(i) /\ probe.passB[i] # probe.raw[i]

(***************************************************************************)
(* The mesh-density bench: findBestMeshSize over small images, budgets and *)
(* tolerances, and over a 1920 x 1080 image with the default budget.       *)
(***************************************************************************)
TARGET_MESH == 250000

MESH_DIFF == 2000

MeshDims == { 1, 2, 3, 5, 40 }

MeshBudgets == { 4, 12, 30 }

MeshTolerances == { 0, 2, 5 }

FullHd ==
  [width |-> 1920, height |-> 1080, target |-> TARGET_MESH,
   meshDiff |-> MESH_DIFF]

MeshSizeInputs ==
  { [width |-> w, height |-> h, target |-> t, meshDiff |-> d] :
      w \in MeshDims, h \in MeshDims, t \in MeshBudgets,
      d \in MeshTolerances }
  \cup { FullHd }

InitMeshSize ==
  /\ AppInit
  /\ hasDecompressionStream = TRUE
  /\ probe \in { [kind |-> "meshSize", in |-> in, done |-> FALSE,
                  meshSize |-> NULL] : in \in MeshSizeInputs }

SelectMeshSize ==
  /\ ~probe.done
  /\ probe' = [probe EXCEPT
                 !.done = TRUE,
                 !.meshSize = findBestMeshSize(probe.in.width, probe.in.height,
                                               probe.in.target,
                                               probe.in.meshDiff)]
  /\ UNCHANGED appVars

NextMeshSize == SelectMeshSize

SpecMeshSize == InitMeshSize /\ [][NextMeshSize]_vars

\* The reference.  sqrt(t * w / h) < n + 1/2, that is (2n + 1)^2 * h > 4tw,
\* with the square taken by division to stay within the integers of TLC.
BelowHalfStep(n, t, w, h) == 2 * n + 1 > ((4 * t * w) \div h) \div (2 * n + 1)

\* the least n of lo..hi with BelowHalfStep, by bisection: the square root
\* of t * w / h rounded to the nearest integer
RECURSIVE RoundedRootIn(_, _, _, _, _)
RoundedRootIn(lo, hi, t, w, h) ==
  IF lo >= hi THEN lo
  ELSE IF BelowHalfStep((lo + hi) \div 2, t, w, h)
       THEN RoundedRootIn(lo, (lo + hi) \div 2, t, w, h)
       ELSE RoundedRootIn((lo + hi) \div 2 + 1, hi, t, w, h)

RoundedRoot(t, w, h) == RoundedRootIn(0, Max(t, w) + 1, t, w, h)

\* t / x rounded: m - 1/2 <= t / x < m + 1/2
RoundedQuotient(t, x) ==
  CHOOSE m \in 0..(t \div x + 1) :
    (2 * m - 1) * x <= 2 * t /\ 2 * t < (2 * m + 1) * x

\* the candidate of t: columns and rows as the selector's contract has them
RoundedCandidate(t, w, h) ==
  LET x == RoundedRoot(t, w, h)
  IN  [t |-> t, meshX |-> x,
       meshY |-> IF x = 0 THEN 0 ELSE RoundedQuotient(t, x)]

\* the candidates of the band of `in` whose columns * rows is in the band
AcceptedCandidates(in) ==
  Filled({ c \in { RoundedCandidate(t, in.width, in.height) :
                     t \in Max(1, in.target - in.meshDiff)
                             ..(in.target + in.meshDiff) } :
             /\ c.meshX * c.meshY >= Max(1, in.target - in.meshDiff)
             /\ c.meshX * c.meshY <= in.target + in.meshDiff })

\* |c.meshX / c.meshY - width / height| < |d.meshX / d.meshY - width / height|
CloserRatio(c, d, in) ==
  Abs(c.meshX * in.height - in.width * c.meshY) * d.meshY
    < Abs(d.meshX * in.height - in.width * d.meshY) * c.meshY

SamePair(c, d) == c.meshX = d.meshX /\ c.meshY = d.meshY

\* r is the choice among the accepted candidates `accepted`
IsBestOf(r, accepted, in) ==
  IF accepted = {} THEN r = [meshX |-> 0, meshY |-> 0]
  ELSE /\ \E c \in accepted : SamePair(c, r)
       /\ \A c \in accepted : ~CloserRatio(c, r, in)
       /\ \A c \in accepted :
            (~SamePair(c, r) /\ ~CloserRatio(r, c, in))
              => \E d \in accepted : d.t < c.t /\ SamePair(d, r)

\* C17: findBestMeshSize returns the columns and rows of an accepted
\* candidate of the band with the least ratio error, the first such in the
\* order of t, and (0, 0) exactly when no candidate is accepted; never a
\* pair with one component zero.
C17_BestMeshSize ==
  probe.done =>
    /\ IsBestOf(probe.meshSize, AcceptedCandidates(probe.in), probe.in)
    /\ (probe.meshSize.meshX = 0) <=> (probe.meshSize.meshY = 0)

\* a choice among several accepted candidates of different ratio errors
C17_Witness ==
  /\ probe.done
  /\ probe.meshSize.meshX > 0
  /\ \E c \in AcceptedCandidates(probe.in) :
       CloserRatio(probe.meshSize, c, probe.in)
  /\ \E c \in AcceptedCandidates(probe.in) :
       /\ ~SamePair(c, probe.meshSize)
       /\ ~CloserRatio(probe.meshSize, c, probe.in)

\* C18: findBestMeshSize(1920, 1080) with the default budget returns columns
\* and rows whose product is in [248000, 252000] and whose ratio is within
\* 0.01 of 1920 / 1080.
C18_FullHdMeshSize ==
  (probe.done /\ probe.in = FullHd) =>
    /\ probe.meshSize.meshX * probe.meshSize.meshY \in 248000..252000
    /\ probe.meshSize.meshY > 0
    /\ 100 * Abs(1080 * probe.meshSize.meshX - 1920 * probe.meshSize.meshY)
         <= 1080 * probe.meshSize.meshY

\* the tessellation of a 1920 x 1080 image has been chosen
C18_Witness ==
  /\ probe.done
  /\ probe.in = FullHd
  /\ probe.meshSize.meshX > probe.meshSize.meshY
  /\ probe.meshSize.meshY > 0

(***************************************************************************)
(* The pass bench: reduceDepthSpikes and applyEdgeAwareSmooth as loops     *)
(* over the pixels of a 3 x 3 image, the pixels visited in any order.      *)
(***************************************************************************)
\* the depth grids: a spike in a flat field; a spike next to a pixel that
\* is one stable neighbour short of being a spike; a ramp; a flat field
\* with a missing pixel and a step
PassGrids ==
  { << 10000, 10000, 10000, 10000, 20000, 10000, 10000, 10000, 10000 >>,
    << 7000, 10000, 10000, 7000, 20000, 20000, 7000, 10000, 10000 >>,
    << 10000, 11000, 12000, 11000, 12000, 13000, 12000, 13000, 14000 >>,
    << 10000, 10000, 0, 10000, 10000, 12000, 10000, 10000, 12000 >> }

\* the colour buffers: uniform, and a faint pattern
PassColors ==
  { [k \in 1..36 |-> IF k % 4 = 0 THEN 255 ELSE 100],
    [k \in 1..36 |-> IF k % 4 = 0 THEN 255 ELSE 100 + ((k \div 4) % 3) * 5] }

\* reduceDepthSpikes writing into the array it reads
passInputAliased(p) ==
  IF p.stage = "A" THEN p.passA ELSE p.passA

\* the grid the running pass reads: its parameter `depth`, which is the raw
\* grid for reduceDepthSpikes and the returned result of reduceDepthSpikes
\* for applyEdgeAwareSmooth
passInput(p) ==
  IF p.stage = "A" THEN p.raw ELSE p.passA

\* reduceDepthSpikes is entered: result = new Float32Array(depth)
InitPasses ==
  /\ AppInit
  /\ hasDecompressionStream = TRUE
  /\ probe \in { [kind |-> "passes", stage |-> "A", visited |-> {},
                  raw |-> g, colors |-> c, passA |-> g,
                  passB |-> << >>] : g \in PassGrids, c \in PassColors }

\* one iteration of the loops of reduceDepthSpikes, for pixel i (from 1)
VisitSpike(i) ==
  /\ probe.stage = "A"
  /\ i \notin probe.visited
  /\ probe' = [probe EXCEPT
                 !.visited = @ \cup { i },
                 !.passA[i] = spikePixel(passInput(probe), probe.colors, 3, 3,
                                         (i - 1) % 3, (i - 1) \div 3)]
  /\ UNCHANGED appVars

\* reduceDepthSpikes returns and applyEdgeAwareSmooth is entered:
\* result = new Float32Array(depth.length)
EnterSmooth ==
  /\ probe.stage = "A"
  /\ probe.visited = 1..9
  /\ probe' = [probe EXCEPT !.stage = "B", !.visited = {},
                            !.passB = [k \in 1..9 |-> 0]]
  /\ UNCHANGED appVars

\* one iteration of the loops of applyEdgeAwareSmooth, for pixel i (from 1)
VisitSmooth(i) ==
  /\ probe.stage = "B"
  /\ i \notin probe.visited
  /\ probe' = [probe EXCEPT
                 !.visited = @ \cup { i },
                 !.passB[i] = smoothPixel(passInput(probe), probe.colors, 3, 3,
                                          (i - 1) % 3, (i - 1) \div 3)]
  /\ UNCHANGED appVars

\* applyEdgeAwareSmooth returns
LeaveSmooth ==
  /\ probe.stage = "B"
  /\ probe.visited = 1..9
  /\ probe' = [probe EXCEPT !.stage = "done"]
  /\ UNCHANGED appVars

NextPasses ==
  \/ \E i \in 1..9 : VisitSpike(i)
  \/ EnterSmooth
  \/ \E i \in 1..9 : VisitSmooth(i)
  \/ LeaveSmooth

SpecPasses == InitPasses /\ [][NextPasses]_vars

\* C25: in whatever order the pixels are visited, a pixel written by Pass A
\* holds what Pass A gives it in row order, a pixel not yet written holds
\* its raw depth, Pass B starts from the whole output of Pass A, and a pixel
\* written by Pass B holds what preprocessDepth gives it.
C25_PassesOrderIndependent ==
  /\ \A i \in 1..9 :
       probe.passA[i] =
         IF probe.stage = "A" /\ i \notin probe.visited THEN probe.raw[i]
         ELSE reduceDepthSpikes(probe.raw, probe.colors, 3, 3)[i]
  /\ probe.stage # "A" =>
       \A i \in 1..9 :
         probe.passB[i] =
           IF probe.stage = "B" /\ i \notin probe.visited THEN 0
           ELSE preprocessDepth(probe.raw, probe.colors, 3, 3)[i]

\* Pass A has replaced a spike, and Pass B has begun with the last pixel and
\* changed it
C25_Witness ==
  /\ probe.stage = "B"
  /\ probe.visited = { 9 }
  /\ \E i \in 1..9 : probe.passA[i] # probe.raw[i]
  /\ probe.passB[9] # probe.passA[9]

(***************************************************************************)
(* The XR bench: the WebXRManager of webapp/src/webxr.js.  probe is the    *)
(* manager with the platform beside it: the sessions the platform has      *)
(* granted and not ended (live), the sessions carrying the manager's 'end' *)
(* listener (listening), the enterVR and enterLookingGlass calls with the  *)
(* await each is suspended in, and the state changes reported so far.      *)
(***************************************************************************)
\* the enterVR and enterLookingGlass calls of a run
MaxCalls == 2

XRLabels == { "vr", "looking-glass" }

IdleCall ==
  [pc |-> "idle", label |-> "vr", ending |-> NULL, session |-> NULL,
   result |-> "none"]

\* the manager after its constructor, with or without a WebGL context
NewManager(gl) ==
  [session |-> NULL, referenceSpace |-> NULL, isLookingGlass |-> FALSE,
   lookPromise |-> "none", xrSupported |-> FALSE, gl |-> gl,
   calls |-> [c \in 1..MaxCalls |-> IdleCall],
   live |-> { }, listening |-> { }, created |-> 0,
   active |-> "none", activations |-> 0, deactivations |-> 0]

InitXR ==
  /\ AppInit
  /\ hasDecompressionStream = TRUE
  /\ probe \in { NewManager(gl) : gl \in BOOLEAN }

\* the call c resolves to r ("true", "false"), or rejects ("rejected")
returned(m, c, r) ==
  [m EXCEPT !.calls[c].pc = "done", !.calls[c].result = r]

\* the platform ends session s: the 'end' listener of setupSession, where
\* the session carries it
sessionEnded(m, s) ==
  IF s \in m.listening
    THEN [m EXCEPT !.live = @ \ { s }, !.session = NULL,
                   !.referenceSpace = NULL, !.active = "false",
                   !.deactivations = @ + 1]
  ELSE [m EXCEPT !.live = @ \ { s }]

\* enterVR once support is known: `if (this.session) await
\* this.session.end()`, then the await of requestSession
enterVRSupported(m, c) ==
  IF m.session # NULL
    THEN [m EXCEPT !.calls[c].pc = "end", !.calls[c].ending = m.session]
  ELSE [m EXCEPT !.calls[c].pc = "request"]

\* enterVR down to its first await
enterVR(m, c) ==
  IF m.xrSupported THEN enterVRSupported(m, c)
  ELSE [m EXCEPT !.calls[c].pc = "detect"]

\* setupSession down to its first await, or to its throw, which enterVR
\* catches
setupSession(m, c, session) ==
  LET held == [m EXCEPT !.session = session,
                        !.isLookingGlass = m.calls[c].label = "looking-glass",
                        !.calls[c].session = session]
  IN IF ~m.gl THEN returned(held, c, "false")
     ELSE [held EXCEPT !.calls[c].pc = "compatible"]

\* setupSession from the reference space on
setupSessionEnd(m, c, found) ==
  LET session == m.calls[c].session
  IN IF ~found
       THEN returned([m EXCEPT !.referenceSpace = NULL], c, "false")
     ELSE returned([m EXCEPT !.referenceSpace = [space |-> session.id],
                             !.listening = @ \cup { session },
                             !.active = "true",
                             !.activations = @ + 1], c, "true")

\* the next call that has not begun
NextCall(m) == CHOOSE c \in 1..MaxCalls :
                 /\ m.calls[c].pc = "idle"
                 /\ \A d \in 1..(c - 1) : m.calls[d].pc # "idle"

EnterVR ==
  /\ \E c \in 1..MaxCalls : probe.calls[c].pc = "idle"
  /\ probe' = enterVR(probe, NextCall(probe))
  /\ UNCHANGED appVars

EnterLookingGlass ==
  /\ \E c \in 1..MaxCalls : probe.calls[c].pc = "idle"
  /\ probe' = [probe EXCEPT !.isLookingGlass = TRUE,
                            !.calls[NextCall(probe)].pc = "polyfill",
                            !.calls[NextCall(probe)].label = "looking-glass"]
  /\ UNCHANGED appVars

\* the import of the polyfill settles; lookPromise keeps the first outcome
PolyfillArrives(c, ok) ==
  /\ probe.calls[c].pc = "polyfill"
  /\ probe.lookPromise \in { "none", IF ok THEN "ok" ELSE "failed" }
  /\ probe' =
       IF ok THEN enterVR([probe EXCEPT !.lookPromise = "ok"], c)
       ELSE returned([probe EXCEPT !.lookPromise = "failed",
                                   !.isLookingGlass = FALSE], c, "false")
  /\ UNCHANGED appVars

\* isSessionSupported answers, or throws
DetectArrives(c, outcome) ==
  /\ probe.calls[c].pc = "detect"
  /\ probe' =
       IF outcome = "supported"
         THEN enterVRSupported([probe EXCEPT !.xrSupported = TRUE], c)
       ELSE IF outcome = "unsupported"
         THEN returned([probe EXCEPT !.xrSupported = FALSE], c, "false")
       ELSE returned(probe, c, "false")
  /\ UNCHANGED appVars

\* `await this.session.end()` of enterVR settles: the session ends, or it
\* had ended already and end() rejects, outside the try block
EndArrives(c) ==
  /\ probe.calls[c].pc = "end"
  /\ probe' =
       IF probe.calls[c].ending \in probe.live
         THEN [sessionEnded(probe, probe.calls[c].ending)
                 EXCEPT !.calls[c].pc = "request"]
       ELSE returned(probe, c, "rejected")
  /\ UNCHANGED appVars

\* requestSession settles
RequestArrives(c, granted) ==
  /\ probe.calls[c].pc = "request"
  /\ probe' =
       IF ~granted THEN returned(probe, c, "false")
       ELSE setupSession([probe EXCEPT !.created = @ + 1,
                                       !.live = @ \cup { [id |-> probe.created + 1] }],
                         c, [id |-> probe.created + 1])
  /\ UNCHANGED appVars

\* makeXRCompatible settles; XRWebGLLayer throws for a session that has
\* ended
CompatibleArrives(c, ok) ==
  /\ probe.calls[c].pc = "compatible"
  /\ probe' =
       IF ok /\ probe.calls[c].session \in probe.live
         THEN [probe EXCEPT !.calls[c].pc = "space"]
       ELSE returned(probe, c, "false")
  /\ UNCHANGED appVars

\* getReferenceSpace returns a space, or null when every type is refused,
\* as it is for a session that has ended
SpaceArrives(c, found) ==
  /\ probe.calls[c].pc = "space"
  /\ found => probe.calls[c].session \in probe.live
  /\ probe' = setupSessionEnd(probe, c, found)
  /\ UNCHANGED appVars

\* the platform ends a session: the user leaves XR, or exit() is called
SessionEnds(s) ==
  /\ s \in probe.live
  /\ probe' = sessionEnded(probe, s)
  /\ UNCHANGED appVars

NextXR ==
  \/ EnterVR
  \/ EnterLookingGlass
  \/ \E c \in 1..MaxCalls : \E ok \in BOOLEAN : PolyfillArrives(c, ok)
  \/ \E c \in 1..MaxCalls :
       \E outcome \in { "supported", "unsupported", "throws" } :
         DetectArrives(c, outcome)
  \/ \E c \in 1..MaxCalls : EndArrives(c)
  \/ \E c \in 1..MaxCalls : \E granted \in BOOLEAN : RequestArrives(c, granted)
  \/ \E c \in 1..MaxCalls : \E ok \in BOOLEAN : CompatibleArrives(c, ok)
  \/ \E c \in 1..MaxCalls : \E found \in BOOLEAN : SpaceArrives(c, found)
  \/ \E s \in probe.live : SessionEnds(s)

SpecXR == InitXR /\ [][NextXR]_vars

\* C29: outside setupSession the manager holds a session only while that
\* session is live and fully set up; a call that resolves to false leaves this.session null and
\* reports no active:true; and when the held session ends, this.session and
\* this.referenceSpace become null and active:false is reported.
C29_SessionOnlyWhileActive ==
  /\ []((/\ probe.session # NULL
          /\ \A c \in 1..MaxCalls :
               probe.calls[c].pc \notin { "compatible", "space" })
          => probe.session \in probe.live \cap probe.listening)
  /\ [][/\ \A c \in 1..MaxCalls :
             (probe.calls[c].result # "false"
                /\ probe'.calls[c].result = "false")
               => /\ probe'.session = NULL
                  /\ probe'.activations = probe.activations
        /\ \A s \in probe.live \ probe'.live :
             probe.session = s
               => /\ probe'.session = NULL
                  /\ probe'.referenceSpace = NULL
                  /\ probe'.deactivations = probe.deactivations + 1]_vars

(***************************************************************************)
(* The export bench: createGlbBlob of webapp/src/gltf-exporter.js, run     *)
(* statement group by statement group on a mesh.  probe holds the mesh as  *)
(* given and as it is now, the typed arrays createGlbBlob makes of it, the *)
(* binary buffer under construction and, at the end, the GLB.  A typed     *)
(* array is its element type and its elements; the values of the normals   *)
(* and the text of the JSON beyond its length are not modelled.            *)
(***************************************************************************)
\* the vertex counts, triangle counts and PNG lengths of the exported meshes
GlbVertexCounts == { 3, 4 }

GlbTriangleCounts == { 1, 2 }

GlbImageLengths == { 5, 6, 7, 8 }

\* the UTF-8 length of the JSON text beyond its structure: the mesh name,
\* the decimal text of the bounds and of the node matrix
GlbTextLengths == 0..3

TypedArray(type, elements) == [type |-> type, elements |-> elements]

\* array.byteLength
ByteLength(array) ==
  IF array.type = "Uint8" THEN Len(array.elements)
  ELSE 4 * Len(array.elements)

GlbMesh(vertices, triangles, withUvs) ==
  [positions |-> TypedArray("Float32", [i \in 1..(3 * vertices) |-> i]),
   indices |-> TypedArray("Uint32",
                          [i \in 1..(3 * triangles) |-> (i - 1) % vertices]),
   uvs |-> IF withUvs
             THEN TypedArray("Float32", [i \in 1..(2 * vertices) |-> i % 2])
           ELSE NULL]

\* toFloat32(array)
toFloat32(array) == TypedArray("Float32", array.elements)

\* toUint32(array)
toUint32(array) == TypedArray("Uint32", array.elements)

\* computeVertexNormals(positions, indices): a new Float32Array of
\* positions.length, the only array the function writes
computeVertexNormals(positions, indices) ==
  TypedArray("Float32", [i \in 1..Len(positions.elements) |-> 0])

\* createBinaryBuffer()
createBinaryBuffer ==
  [parts |-> << >>, byteLength |-> 0, bufferViews |-> << >>]

\* append(data, { align, target }) of createBinaryBuffer
append(binary, data, align, target) ==
  LET padding == (align - (binary.byteLength % align)) % align
      byteOffset == binary.byteLength + padding
  IN [parts |->
        (IF padding # 0
           THEN Append(binary.parts, [type |-> "pad", length |-> padding])
         ELSE binary.parts)
        \o << [type |-> "data", length |-> ByteLength(data)] >>,
      byteLength |-> byteOffset + ByteLength(data),
      bufferViews |->
        Append(binary.bufferViews,
               [buffer |-> 0, byteOffset |-> byteOffset,
                byteLength |-> ByteLength(data), target |-> target])]

\* finalize() of createBinaryBuffer: the buffer (by its length), the views
\* and the declared length
finalize(binary) ==
  [buffer |-> binary.byteLength,
   end |-> SeqSum([i \in DOMAIN binary.parts |-> binary.parts[i].length]),
   bufferViews |-> binary.bufferViews,
   byteLength |-> binary.byteLength]

\* the decimal digits of n
RECURSIVE Digits(_)
Digits(n) == IF n < 10 THEN 1 ELSE 1 + Digits(n \div 10)

\* the UTF-8 length of JSON.stringify(json): what the numbers of the
\* buffer, the views and the accessors take, and `text` for the rest
JsonLength(final, counts, text) ==
  Digits(final.byteLength)
  + SeqSum([i \in DOMAIN final.bufferViews |->
              Digits(final.bufferViews[i].byteOffset)
              + Digits(final.bufferViews[i].byteLength)])
  + SeqSum([i \in DOMAIN counts |-> Digits(counts[i])])
  + text

\* createJsonChunk(json): the length of the padded chunk
createJsonChunk(jsonLength) == jsonLength + ((4 - (jsonLength % 4)) % 4)

\* createGlb writing the binary chunk as it is given
createGlbUnpadded(jsonChunk, binaryChunk) ==
  LET binaryBuffer == binaryChunk
      totalLength == 12 + 8 + jsonChunk + 8 + binaryBuffer
  IN [length |-> totalLength,
      jsonChunkLength |-> jsonChunk,
      binChunkLength |-> binaryBuffer,
      written |-> ((12 + 8) + jsonChunk) + 8 + binaryBuffer,
      bytes |-> totalLength]

\* createGlb(jsonChunk, binaryChunk), the chunks by their lengths: the
\* header's length field, the two chunk length fields, the offset the
\* writes end at and the length of the array returned
createGlb(jsonChunk, binaryChunk) ==
  LET binaryPadding == (4 - (binaryChunk % 4)) % 4
      binaryBuffer == binaryChunk + binaryPadding
      totalLength == 12 + 8 + jsonChunk + 8 + binaryBuffer
  IN [length |-> totalLength,
      jsonChunkLength |-> jsonChunk,
      binChunkLength |-> binaryBuffer,
      written |-> ((12 + 8) + jsonChunk) + 8 + binaryBuffer,
      bytes |-> totalLength]

InitGlb ==
  /\ AppInit
  /\ hasDecompressionStream = TRUE
  /\ probe \in
       { [kind |-> "glb", stage |-> "begin", given |-> mesh, mesh |-> mesh,
          includeUVs |-> includeUVs, image |-> image, text |-> text,
          positions |-> NULL, indices |-> NULL, normals |-> NULL,
          uvs |-> NULL, binary |-> createBinaryBuffer, imageBytes |-> NULL,
          final |-> NULL, glb |-> NULL] :
           mesh \in { GlbMesh(v, t, u) : v \in GlbVertexCounts,
                                         t \in GlbTriangleCounts,
                                         u \in BOOLEAN },
           includeUVs \in BOOLEAN,
           image \in { NULL } \cup { [byteLength |-> n] : n \in GlbImageLengths },
           text \in GlbTextLengths }

\* createGlbBlob down to `const binary = createBinaryBuffer()`
GlbArrays ==
  /\ probe.stage = "begin"
  /\ probe' =
       [probe EXCEPT
          !.stage = "arrays",
          !.positions = toFloat32(probe.mesh.positions),
          !.indices = toUint32(probe.mesh.indices),
          !.normals = computeVertexNormals(toFloat32(probe.mesh.positions),
                                           toUint32(probe.mesh.indices)),
          !.uvs = IF probe.includeUVs /\ probe.mesh.uvs # NULL
                    THEN toFloat32(probe.mesh.uvs) ELSE NULL]
  /\ UNCHANGED appVars

\* the appends of the vertex data, down to the await of encodeImageData
GlbAppendGeometry ==
  /\ probe.stage = "arrays"
  /\ probe' =
       [probe EXCEPT
          !.stage = "geometry",
          !.binary =
            LET withNormals ==
                  append(append(probe.binary, probe.positions, 4, 34962),
                         probe.normals, 4, 34962)
                withUvs ==
                  IF probe.uvs # NULL
                    THEN append(withNormals, probe.uvs, 4, 34962)
                  ELSE withNormals
            IN append(withUvs, probe.indices, 4, 34963)]
  /\ UNCHANGED appVars

\* encodeImageData has returned the PNG bytes: the image view, finalize,
\* the JSON and the GLB
GlbFinish ==
  /\ probe.stage = "geometry"
  /\ LET imageBytes ==
           IF probe.image = NULL THEN NULL
           ELSE TypedArray("Uint8", [i \in 1..probe.image.byteLength |-> 0])
         binary ==
           IF imageBytes # NULL THEN append(probe.binary, imageBytes, 4, 0)
           ELSE probe.binary
         final == finalize(binary)
         counts ==
           << Len(probe.positions.elements) \div 3,
              Len(probe.normals.elements) \div 3 >>
           \o (IF probe.uvs # NULL
                 THEN << Len(probe.uvs.elements) \div 2 >> ELSE << >>)
           \o << Len(probe.indices.elements) >>
     IN probe' =
          [probe EXCEPT
             !.stage = "done",
             !.imageBytes = imageBytes,
             !.binary = binary,
             !.final = final,
             !.glb = createGlb(
                       createJsonChunk(JsonLength(final, counts, probe.text)),
                       final.buffer)]
  /\ UNCHANGED appVars

\* encodeImageData has returned null: createGlbBlob throws
GlbEncodeFails ==
  /\ probe.stage = "geometry"
  /\ probe.image # NULL
  /\ probe' = [probe EXCEPT !.stage = "failed"]
  /\ UNCHANGED appVars

NextGlb ==
  \/ GlbArrays
  \/ GlbAppendGeometry
  \/ GlbFinish
  \/ GlbEncodeFails

SpecGlb == InitGlb /\ [][NextGlb]_vars

\* C30: every GLB made has a header length equal to its byte length and to
\* 12 + 8 + jsonChunkLength + 8 + binChunkLength, both chunk lengths are
\* multiples of 4, every bufferView starts at a multiple of 4, the
\* bufferViews follow one another without overlap inside the declared
\* buffer byteLength, which is at most the binary chunk length; and the
\* arrays of the mesh are as they were given.
C30_GlbLayout ==
  /\ probe.mesh = probe.given
  /\ probe.stage = "done" =>
       LET views == probe.final.bufferViews
       IN /\ probe.glb.length = probe.glb.bytes
          /\ probe.glb.length = probe.glb.written
          /\ probe.glb.length
               = 12 + 8 + probe.glb.jsonChunkLength + 8
                 + probe.glb.binChunkLength
          /\ probe.glb.jsonChunkLength % 4 = 0
          /\ probe.glb.binChunkLength % 4 = 0
          /\ \A i \in DOMAIN views :
               /\ views[i].byteOffset % 4 = 0
               /\ views[i].byteOffset + views[i].byteLength
                    <= probe.final.byteLength
               /\ \A j \in DOMAIN views :
                    i < j => views[i].byteOffset + views[i].byteLength
                               <= views[j].byteOffset
          /\ probe.final.end = probe.final.byteLength
          /\ probe.final.byteLength <= probe.glb.binChunkLength

\* a mesh with texture coordinates and a PNG of 7 bytes is exported: five
\* bufferViews, and a binary chunk one byte longer than the buffer declared
C30_Witness ==
  /\ probe.stage = "done"
  /\ Len(probe.final.bufferViews) = 5
  /\ probe.imageBytes # NULL
  /\ probe.final.byteLength % 4 = 3
  /\ probe.glb.binChunkLength = probe.final.byteLength + 1

=============================================================================
